---- MODULE Spec2Model ----
(***************************************************************************)
(* A model of the TDH engine prototype's remediation core:                 *)
(*   - LLMStateMachine        (src/core/llm_state_machine.py)              *)
(*   - LLMCouncil             (src/core/llm_council.py)                    *)
(*   - EnhancedLLMCouncil     (src/core/llm_council_enhanced.py)          *)
(* Tasks are asyncio coroutines: a task runs without interruption until it *)
(* awaits an external collaborator (the worktree manager or the agent),    *)
(* which is where the variable `current` hands the event loop back.        *)
(***************************************************************************)
EXTENDS Integers, Sequences, FiniteSets, TLC

(***************************************************************************)
(* Bounds of the model.                                                    *)
(***************************************************************************)
\* number of agents configured in the council, in order of preference
NumAgents == 5
\* how many times a caller invokes execute_workflow on one machine
MaxRuns == 2
\* number of distinct vulnerability records handed to the engine
NumVulns == 2
\* the directories tempfile.mkdtemp can hand out
MaxDirs == 2
\* the commits made on one branch
MaxCommits == 2
\* the lines of the file a finding points into
MaxLines == 12
\* the calls of score made on the scorers
MaxCalls == 3
\* the lines of more than 100 characters in a text that is scored
MaxLongLines == 21
\* the imports without a heavy library in a text that is scored
MaxImports == 11
\* the proposals the engine selects from
MaxProposals == 2

(***************************************************************************)
(* Program constants.                                                      *)
(***************************************************************************)
\* response[:500] kept in the degraded analysis record
RawLimit == 500
\* settings.max_retries / _generate_fix_with_retry(max_retries=2)
MaxRetries == 2
\* list(self.state_machines.items())[:3]
MachineLimit == 3
\* settings.preferred_odd_number
PreferredOddNumber == 5

Agents == 1 .. NumAgents
Vulns == 1 .. NumVulns

\* the task that owns the event loop: 0 when every task is suspended
NoTask == 0
OrchTask == -1

\* Python's None
None == [tag |-> "None"]

Min(x, y) == IF x <= y THEN x ELSE y

(***************************************************************************)
(* LLMState (enum).                                                        *)
(***************************************************************************)
LLMState ==
    {"IDLE", "ANALYZING", "TEST_DESIGNING", "FIX_DESIGNING", "DOCUMENTING",
     "WAITING_COUNCIL", "COUNCIL_DISCUSSING", "FINISHED", "ERROR"}

(***************************************************************************)
(* Agent replies.  A text is abstracted to what json.loads and slicing     *)
(* look at: its JSON shape and its length.                                 *)
(*   obj      a JSON object                                                *)
(*   scalar   valid JSON that is neither an object nor a string            *)
(*   str_obj  a JSON string whose content is a JSON object (double-encoded)*)
(*   str_bad  a JSON string whose content is not JSON                      *)
(*   bad      not JSON at all                                              *)
(***************************************************************************)
TextKinds == {"obj", "scalar", "str_obj", "str_bad", "bad"}
TextLens == {RawLimit, RawLimit + 1}
Replies == [kind : TextKinds, len : TextLens]

\* text[:n]
Slice(text, n) == [text EXCEPT !.len = Min(text.len, n)]

\* the content of a JSON string literal: the text without its two quotes
Inner(text) ==
    [kind |-> IF text.kind = "str_obj" THEN "obj" ELSE "bad",
     len |-> IF text.len >= 2 THEN text.len - 2 ELSE 0]

\* json.loads: ok = FALSE stands for the JSONDecodeError it raises
JsonLoads(text) ==
    CASE text.kind = "obj" -> [ok |-> TRUE, type |-> "dict", of |-> text]
      [] text.kind = "scalar" -> [ok |-> TRUE, type |-> "scalar", of |-> text]
      [] text.kind \in {"str_obj", "str_bad"} ->
            [ok |-> TRUE, type |-> "str", of |-> Inner(text)]
      [] OTHER -> [ok |-> FALSE, type |-> "error", of |-> text]

\* a degraded record that drops the reply
DegradedAnalysisDropsReply(response) ==
    [tag |-> "degraded",
     what |-> "Analisis no estructurado",
     why_vulnerable |-> "No se pudo parsear respuesta",
     raw_response |-> Slice(response, 0)]

\* the record built when the reply is not valid JSON
DegradedAnalysis(response) ==
    [tag |-> "degraded",
     what |-> "Analisis no estructurado",
     why_vulnerable |-> "No se pudo parsear respuesta",
     raw_response |-> Slice(response, RawLimit)]

ParsedAnalysis(value) == [tag |-> "parsed", type |-> value.type, of |-> value.of]

\* the try/except around json.loads in _state_analyzing
ParseAnalysis(response) ==
    LET first == JsonLoads(response) IN
    IF ~first.ok THEN DegradedAnalysis(response)
    ELSE IF first.type = "str"
         THEN LET second == JsonLoads(first.of) IN
              IF second.ok THEN ParsedAnalysis(second)
              ELSE DegradedAnalysis(response)
         ELSE ParsedAnalysis(first)

(***************************************************************************)
(* LLMStateContext.                                                        *)
(***************************************************************************)
NewContext(v) ==
    [vulnerability |-> v,
     analysis_result |-> None,
     test_design |-> None,
     fix_code |-> None,
     documentation |-> None,
     council_feedback |-> None,
     errors |-> <<>>]

\* LLMStateContext.add_error
add_error(ctx, where, e) ==
    [ctx EXCEPT !.errors = Append(@, [where |-> where, exc |-> e])]

\* the branch name handed to execute_workflow
BranchOf(v, a) == [issue |-> v, agent |-> a]

\* LLMStateMachine._compile_results
compile_results(a, ctx, branch) ==
    [llm_name |-> a,
     branch |-> branch,
     vulnerability |-> ctx.vulnerability,
     analysis |-> ctx.analysis_result,
     test_design |-> ctx.test_design,
     fix |-> ctx.fix_code,
     documentation |-> ctx.documentation,
     errors |-> ctx.errors]

VARIABLES
    \* ---- LLMStateMachine, one per agent name
    machines,       \* the agents a machine was constructed for
    self_of,        \* the machine (self) an execute_workflow coroutine runs on
    council,        \* self.council is set
    state,          \* self.state
    state_history,  \* self.state_history
    context,        \* self.context
    pc,             \* where the execute_workflow coroutine of the machine is
    arg,            \* the vulnerability argument of the call in progress
    exc,            \* the exception in flight
    response,       \* the local `response` of _state_analyzing
    result,         \* what the last call returned
    calls,          \* number of execute_workflow calls made on the machine
    run_start,      \* len(state_history) when the call in progress began
    llm_calls,      \* agent invocations made by the call in progress
    current,        \* the task the event loop is running
    \* ---- LLMCouncil
    llms,           \* self.llms, in order of preference
    is_available,   \* llm.is_available; "none" when no OpenRouterLLM was built
    council_pc,     \* "new", then "initialized" by initialize_council
    assign_pc,      \* where assign_vulnerability is
    selected,       \* selected_llms of assign_vulnerability
    fix_task,       \* the _generate_fix_with_retry task of each selected agent
    timed_out,      \* wait_for raised asyncio.TimeoutError
    final_results,  \* final_results of assign_vulnerability
    \* ---- EnhancedLLMCouncil
    state_machines, \* self.state_machines, keys in insertion order
    orch_pc,        \* where orchestrate_vulnerability_fix is
    orch_vuln,      \* its vulnerability argument
    available_machines, \* list(self.state_machines.items())[:3]
    idx,            \* the loop index of the loop in progress
    llm_tasks,      \* llm_tasks, keys in insertion order
    results,        \* results
    solutions,      \* self.solutions
    report,         \* the report returned
    \* ---- GitWorktreeManager and the repository it manages
    worktrees,      \* self.worktrees, the registry: branch name -> metadata
    branches,       \* the branches of the canonical clone
    git_worktrees,  \* the worktrees git has registered: directory -> branch
    disk,           \* the worktree directories that exist
    ret,            \* the outcome of the last call of the manager
    created,        \* what the calls of create_worktree_for_llm returned
    fs,             \* the files on disk: absolute path -> content
    heads,          \* the head commit of each branch of the canonical clone
    remote,         \* the branches of the remote repository and their commits
    github_token,   \* self.github_token is set
    base,           \* what self.base_dir holds: nothing, no clone, a clone
    origin_url,     \* remote.origin.url of the canonical clone
    \* ---- FixScorer and the TDHEngine that owns it
    scorer,         \* the FixScorer constructed last, with its self.weights
    out,            \* the outcome of the last call of the scorer or engine
    saved,          \* the outcome of a call of score its caller has kept
    score_calls     \* the number of calls of score made

smVars == <<machines, self_of, council, state, state_history, context, pc, arg, exc,
            response, result, calls, run_start, llm_calls>>
councilVars == <<llms, is_available, council_pc, assign_pc, selected, fix_task, timed_out,
                 final_results>>
orchVars == <<state_machines, orch_pc, orch_vuln, available_machines, idx,
              llm_tasks, results, solutions, report>>
wtVars == <<worktrees, branches, git_worktrees, disk, ret, created, fs, heads,
            remote, github_token, base, origin_url>>
scVars == <<scorer, out, saved, score_calls>>
vars == <<smVars, current, councilVars, orchVars, wtVars, scVars>>

(***************************************************************************)
(* LLMStateMachine.                                                        *)
(***************************************************************************)
\* LLMStateMachine.__init__ for every agent, with the machines of `ms` built
InitMachines(ms, withCouncil) ==
    /\ machines = ms
    /\ self_of = [a \in Agents |-> a]
    /\ council = [a \in Agents |-> withCouncil]
    /\ state = [a \in Agents |-> "IDLE"]
    /\ state_history = [a \in Agents |-> <<>>]
    /\ context = [a \in Agents |-> None]
    /\ pc = [a \in Agents |-> "idle"]
    /\ arg = [a \in Agents |-> 1]
    /\ exc = [a \in Agents |-> "none"]
    /\ response = [a \in Agents |-> None]
    /\ result = [a \in Agents |-> None]
    /\ calls = [a \in Agents |-> 0]
    /\ run_start = [a \in Agents |-> 0]
    /\ llm_calls = [a \in Agents |-> 0]

\* LLMStateMachine._transition_to
transition_to(a, new_state) ==
    /\ state' = [state EXCEPT ![self_of[a]] = new_state]
    /\ state_history' = [state_history EXCEPT
                           ![self_of[a]] = Append(@, [from |-> state[self_of[a]],
                                                      to |-> new_state])]

\* a caller awaits machine.execute_workflow(vulnerability, worktree_dir, branch)
CallExecuteWorkflow(a, v) ==
    /\ current = NoTask
    /\ a \in machines
    /\ pc[a] \in {"idle", "returned"}
    /\ calls[a] < MaxRuns
    /\ pc' = [pc EXCEPT ![a] = "scheduled"]
    /\ arg' = [arg EXCEPT ![a] = v]
    /\ calls' = [calls EXCEPT ![a] = @ + 1]
    /\ UNCHANGED <<machines, self_of, council, state, state_history, context, exc,
                   response, result, run_start, llm_calls, current>>
    /\ UNCHANGED <<councilVars, orchVars, wtVars, scVars>>

\* execute_workflow, up to the try: a fresh context for this call
ExecuteWorkflow(a) ==
    /\ current = NoTask
    /\ pc[a] = "scheduled"
    /\ context' = [context EXCEPT ![self_of[a]] = NewContext(arg[a])]
    /\ run_start' = [run_start EXCEPT ![a] = Len(state_history[self_of[a]])]
    /\ llm_calls' = [llm_calls EXCEPT ![a] = 0]
    /\ response' = [response EXCEPT ![a] = None]
    /\ exc' = [exc EXCEPT ![a] = "none"]
    /\ pc' = [pc EXCEPT ![a] = "to_analyzing"]
    /\ current' = a
    /\ UNCHANGED <<machines, self_of, council, state, state_history, arg, result, calls>>
    /\ UNCHANGED <<councilVars, orchVars, wtVars, scVars>>

\* -> ANALYZING, then _state_analyzing awaits prepare_llm_context
EnterAnalyzing(a) ==
    /\ current = a
    /\ pc[a] = "to_analyzing"
    /\ transition_to(a, "ANALYZING")
    /\ pc' = [pc EXCEPT ![a] = "await_context"]
    /\ current' = NoTask
    /\ UNCHANGED <<machines, self_of, council, context, arg, exc, response, result,
                   calls, run_start, llm_calls>>
    /\ UNCHANGED <<councilVars, orchVars, wtVars, scVars>>

\* the context arrives; the prompt is built and the agent is invoked
PrepareContextReturns(a) ==
    /\ current = NoTask
    /\ pc[a] = "await_context"
    /\ llm_calls' = [llm_calls EXCEPT ![a] = @ + 1]
    /\ pc' = [pc EXCEPT ![a] = "await_llm"]
    /\ UNCHANGED <<machines, self_of, council, state, state_history, context, arg, exc,
                   response, result, calls, run_start, current>>
    /\ UNCHANGED <<councilVars, orchVars, wtVars, scVars>>

\* an except clause that keeps a partial analysis before re-raising
AnalyzingRaisesKeepsPartial(a, e) ==
    /\ context' = [context EXCEPT
                     ![self_of[a]] = [add_error(@, "analisis", e) EXCEPT
                               !.analysis_result = DegradedAnalysis([kind |-> "bad", len |-> 0])]]
    /\ exc' = [exc EXCEPT ![a] = e]
    /\ pc' = [pc EXCEPT ![a] = "except"]
    /\ current' = a
    /\ UNCHANGED <<machines, self_of, council, state, state_history, arg, response,
                   result, calls, run_start, llm_calls>>
    /\ UNCHANGED <<councilVars, orchVars, wtVars, scVars>>

\* _state_analyzing's except clause: record the error and re-raise
AnalyzingRaises(a, e) ==
    /\ context' = [context EXCEPT ![self_of[a]] = add_error(@, "analisis", e)]
    /\ exc' = [exc EXCEPT ![a] = e]
    /\ pc' = [pc EXCEPT ![a] = "except"]
    /\ current' = a
    /\ UNCHANGED <<machines, self_of, council, state, state_history, arg, response,
                   result, calls, run_start, llm_calls>>
    /\ UNCHANGED <<councilVars, orchVars, wtVars, scVars>>

\* prepare_llm_context raises (the file is missing, the worktree is unknown)
PrepareContextRaises(a) ==
    /\ current = NoTask
    /\ pc[a] = "await_context"
    /\ AnalyzingRaises(a, "ContextError")

\* generate_response raises
GenerateResponseRaises(a) ==
    /\ current = NoTask
    /\ pc[a] = "await_llm"
    /\ AnalyzingRaises(a, "AgentInvocationError")

\* generate_response never answers
GenerateResponseHangs(a) ==
    /\ current = NoTask
    /\ pc[a] = "await_llm"
    /\ pc' = [pc EXCEPT ![a] = "hung"]
    /\ UNCHANGED <<machines, self_of, council, state, state_history, context, arg, exc,
                   response, result, calls, run_start, llm_calls, current>>
    /\ UNCHANGED <<councilVars, orchVars, wtVars, scVars>>

\* generate_response answers: parse the reply and store the analysis
GenerateResponseReturns(a, r) ==
    /\ current = NoTask
    /\ pc[a] = "await_llm"
    /\ response' = [response EXCEPT ![a] = r]
    /\ context' = [context EXCEPT ![self_of[a]].analysis_result = ParseAnalysis(r)]
    /\ pc' = [pc EXCEPT ![a] = "to_test_designing"]
    /\ current' = a
    /\ UNCHANGED <<machines, self_of, council, state, state_history, arg, exc, result,
                   calls, run_start, llm_calls>>
    /\ UNCHANGED <<councilVars, orchVars, wtVars, scVars>>

\* a transition followed by a stage whose body is `pass`
EnterStubStage(a, at, new_state, then) ==
    /\ current = a
    /\ pc[a] = at
    /\ transition_to(a, new_state)
    /\ pc' = [pc EXCEPT ![a] = then]
    /\ UNCHANGED <<machines, self_of, council, context, arg, exc, response, result,
                   calls, run_start, llm_calls, current>>
    /\ UNCHANGED <<councilVars, orchVars, wtVars, scVars>>

\* the test-design stage left out of the sequence
EnterTestDesigningSkipped(a) ==
    EnterStubStage(a, "to_test_designing", "FIX_DESIGNING", "to_documenting")

\* -> TEST_DESIGNING, _state_test_designing
EnterTestDesigning(a) ==
    EnterStubStage(a, "to_test_designing", "TEST_DESIGNING", "to_fix_designing")

\* -> FIX_DESIGNING, _state_fix_designing
EnterFixDesigning(a) ==
    EnterStubStage(a, "to_fix_designing", "FIX_DESIGNING", "to_documenting")

\* -> FIX_DESIGNING with the stage the specification describes in place of
\* the pending _state_fix_designing: the stage stores the candidate fix, a
\* mapping of paths to contents that may be empty
FixDesigningStores(a, files) ==
    /\ current = a
    /\ pc[a] = "to_fix_designing"
    /\ transition_to(a, "FIX_DESIGNING")
    /\ context' = [context EXCEPT ![self_of[a]].fix_code = [fixed_files |-> files]]
    /\ pc' = [pc EXCEPT ![a] = "to_documenting"]
    /\ UNCHANGED <<machines, self_of, council, arg, exc, response, result, calls,
                   run_start, llm_calls, current>>
    /\ UNCHANGED <<councilVars, orchVars, wtVars, scVars>>

\* -> DOCUMENTING, _state_documenting, then `if self.council`
EnterDocumenting(a) ==
    EnterStubStage(a, "to_documenting", "DOCUMENTING",
                   IF council[self_of[a]] THEN "to_waiting_council"
                   ELSE "to_finished")

\* -> WAITING_COUNCIL
EnterWaitingCouncil(a) ==
    EnterStubStage(a, "to_waiting_council", "WAITING_COUNCIL", "to_council_discussing")

\* -> COUNCIL_DISCUSSING, _state_council_discussing
EnterCouncilDiscussing(a) ==
    EnterStubStage(a, "to_council_discussing", "COUNCIL_DISCUSSING", "to_finished")

\* -> FINISHED
EnterFinished(a) ==
    EnterStubStage(a, "to_finished", "FINISHED", "compile")

\* an except clause that lets the exception through to the caller
HandleExceptionReraises(a) ==
    /\ current = a
    /\ pc[a] = "except"
    /\ context' = [context EXCEPT ![self_of[a]] = add_error(@, "workflow", exc[a])]
    /\ transition_to(a, "ERROR")
    /\ pc' = [pc EXCEPT ![a] = "raised"]
    /\ current' = NoTask
    /\ UNCHANGED <<machines, self_of, council, arg, exc, response, result, calls,
                   run_start, llm_calls>>
    /\ UNCHANGED <<councilVars, orchVars, wtVars, scVars>>

\* execute_workflow's `except Exception`: record the error, -> ERROR
HandleException(a) ==
    /\ current = a
    /\ pc[a] = "except"
    /\ context' = [context EXCEPT ![self_of[a]] = add_error(@, "workflow", exc[a])]
    /\ transition_to(a, "ERROR")
    /\ pc' = [pc EXCEPT ![a] = "compile"]
    /\ UNCHANGED <<machines, self_of, council, arg, exc, response, result, calls,
                   run_start, llm_calls, current>>
    /\ UNCHANGED <<councilVars, orchVars, wtVars, scVars>>

\* return self._compile_results(branch_name)
CompileResults(a) ==
    /\ current = a
    /\ pc[a] = "compile"
    /\ result' = [result EXCEPT ![a] =
                    compile_results(self_of[a], context[self_of[a]],
                                    BranchOf(arg[a], self_of[a]))]
    /\ pc' = [pc EXCEPT ![a] = "returned"]
    /\ current' = NoTask
    /\ UNCHANGED <<machines, self_of, council, state, state_history, context, arg, exc,
                   response, calls, run_start, llm_calls>>
    /\ UNCHANGED <<councilVars, orchVars, wtVars, scVars>>

\* the steps of one execute_workflow coroutine
WorkflowStep(a, replies) ==
    \/ ExecuteWorkflow(a)
    \/ EnterAnalyzing(a)
    \/ PrepareContextReturns(a)
    \/ PrepareContextRaises(a)
    \/ GenerateResponseRaises(a)
    \/ GenerateResponseHangs(a)
    \/ \E r \in replies : GenerateResponseReturns(a, r)
    \/ EnterTestDesigning(a)
    \/ EnterFixDesigning(a)
    \/ EnterDocumenting(a)
    \/ EnterWaitingCouncil(a)
    \/ EnterCouncilDiscussing(a)
    \/ EnterFinished(a)
    \/ HandleException(a)
    \/ CompileResults(a)

(***************************************************************************)
(* LLMCouncil.                                                             *)
(***************************************************************************)
Range(seq) == {seq[i] : i \in 1 .. Len(seq)}

\* seq[:n]
Take(seq, n) == SubSeq(seq, 1, Min(Len(seq), n))

\* what llm.generate_fix returns: a mapping of path to content
FixFiles == {"empty", "nonempty"}

NoFixTask == [status |-> "none", attempts |-> 0, files |-> "None"]

\* LLMCouncil.__init__: an OpenRouterLLM is built for every configured agent
\* that has an API key
InitCouncilWith(keys) ==
    /\ llms = SelectSeq([i \in 1 .. NumAgents |-> i], LAMBDA a : a \in keys)
    /\ is_available = [a \in Agents |-> IF a \in keys THEN "true" ELSE "none"]
    /\ council_pc = "new"
    /\ assign_pc = "idle"
    /\ selected = <<>>
    /\ fix_task = [a \in Agents |-> NoFixTask]
    /\ timed_out = FALSE
    /\ final_results = [a \in Agents |-> None]

\* LLMCouncil.__init__ with the default configuration
InitCouncil ==
    /\ llms = [i \in 1 .. NumAgents |-> i]
    /\ is_available = [a \in Agents |-> "true"]
    /\ council_pc = "new"
    /\ assign_pc = "idle"
    /\ selected = <<>>
    /\ fix_task = [a \in Agents |-> NoFixTask]
    /\ timed_out = FALSE
    /\ final_results = [a \in Agents |-> None]

\* what check_availability gives for an agent, and the agents that are
\* kept: `isinstance(result, Exception) or not result` drops the others
ProbeResults == {"true", "false", "raised"}
available(probe_results) ==
    {a \in Agents :
        ~(probe_results[a] = "raised" \/ probe_results[a] = "false")}

\* llm.is_available after the probes, for the agents of ls
probed(ls, flags, avail) ==
    [a \in Agents |->
        IF a \in Range(ls) THEN (IF a \in avail THEN "true" ELSE "false")
        ELSE flags[a]]

\* a trim that drops the most preferred agent
initialize_council_drops_first(ls, avail) ==
    LET Available(a) == a \in avail
        kept == SelectSeq(ls, Available)
    IN IF Len(kept) % 2 = 0 /\ Len(kept) > 0 THEN Tail(kept) ELSE kept

\* initialize_council: keep the agents whose probe answered true, then drop
\* the last one when an even number is left
initialize_council(ls, avail) ==
    LET Available(a) == a \in avail
        kept == SelectSeq(ls, Available)
    IN IF Len(kept) % 2 = 0 /\ Len(kept) > 0
       THEN SubSeq(kept, 1, Len(kept) - 1)
       ELSE kept

\* await council.initialize_council()
InitializeCouncil(avail) ==
    /\ council_pc = "new"
    /\ assign_pc = "idle"
    /\ llms' = initialize_council(llms, avail)
    /\ is_available' = probed(llms, is_available, avail)
    /\ council_pc' = "initialized"
    /\ UNCHANGED <<smVars, current, orchVars, wtVars, scVars, assign_pc, selected, fix_task,
                   timed_out, final_results>>

\* assign_vulnerability raises: no agents, or prepare_llm_context fails
AssignVulnerabilityRaises ==
    /\ assign_pc = "idle"
    /\ assign_pc' = "raised"
    /\ UNCHANGED <<smVars, current, orchVars, wtVars, scVars, llms, is_available, council_pc, selected,
                   fix_task, timed_out, final_results>>

\* assign_vulnerability up to the wait: select the agents, create one
\* _generate_fix_with_retry task for each
AssignVulnerability ==
    /\ assign_pc = "idle"
    /\ llms # <<>>
    /\ selected' = Take(llms, PreferredOddNumber)
    /\ fix_task' = [a \in Agents |->
                      IF a \in Range(selected')
                      THEN [status |-> "running", attempts |-> 0, files |-> "None"]
                      ELSE NoFixTask]
    /\ assign_pc' = "waiting"
    /\ UNCHANGED <<smVars, current, orchVars, wtVars, scVars, llms, is_available, council_pc, timed_out,
                   final_results>>

\* _generate_fix_with_retry: llm.generate_fix returns
GenerateFixReturns(a, files) ==
    /\ assign_pc = "waiting"
    /\ fix_task[a].status = "running"
    /\ fix_task' = [fix_task EXCEPT ![a] =
                      [status |-> "ok", attempts |-> @.attempts + 1, files |-> files]]
    /\ UNCHANGED <<smVars, current, orchVars, wtVars, scVars, llms, is_available, council_pc, assign_pc,
                   selected, timed_out, final_results>>

\* a retry loop that allows one attempt more than max_retries + 1
after_failed_attempt_one_more(task) ==
    [status |-> IF task.attempts <= MaxRetries THEN "running" ELSE "error",
     attempts |-> task.attempts + 1,
     files |-> "None"]

\* the task after a failed attempt: retry while attempt < max_retries
after_failed_attempt(task) ==
    [status |-> IF task.attempts < MaxRetries THEN "running" ELSE "error",
     attempts |-> task.attempts + 1,
     files |-> "None"]

\* _generate_fix_with_retry: llm.generate_fix raises
GenerateFixRaises(a) ==
    /\ assign_pc = "waiting"
    /\ fix_task[a].status = "running"
    /\ fix_task' = [fix_task EXCEPT ![a] = after_failed_attempt(@)]
    /\ UNCHANGED <<smVars, current, orchVars, wtVars, scVars, llms, is_available, council_pc, assign_pc,
                   selected, timed_out, final_results>>

\* an entry of final_results
fix_result(outcome) ==
    IF outcome.status = "ok"
    THEN [success |-> TRUE, error |-> "None", fixed_files |-> outcome.files]
    ELSE [success |-> FALSE, error |-> outcome.error, fixed_files |-> "empty"]

\* what gather(return_exceptions=True) yields for a finished task
task_outcome(task) ==
    IF task.status = "ok"
    THEN [status |-> "ok", files |-> task.files, error |-> "None"]
    ELSE [status |-> "exception", files |-> "None", error |-> "AgentInvocationError"]

\* results = [Exception("Timeout")] * len(selected_llms)
timeout_outcome(task) ==
    [status |-> "exception", files |-> "None", error |-> "Timeout"]

\* the gather completes before the deadline: every task has finished
GatherFixesCompletes ==
    /\ assign_pc = "waiting"
    /\ \A a \in Range(selected) : fix_task[a].status \in {"ok", "error"}
    /\ final_results' = [a \in Agents |->
                           IF a \in Range(selected)
                           THEN fix_result(task_outcome(fix_task[a]))
                           ELSE None]
    /\ assign_pc' = "done"
    /\ UNCHANGED <<smVars, current, orchVars, wtVars, scVars, llms, is_available, council_pc, selected,
                   fix_task, timed_out>>

\* wait_for reaches timeout_per_llm * len(selected_llms) with a task still
\* running: the unfinished tasks are cancelled
FixDeadlineExpires ==
    /\ assign_pc = "waiting"
    /\ \E a \in Range(selected) : fix_task[a].status = "running"
    /\ timed_out' = TRUE
    /\ fix_task' = [a \in Agents |->
                      IF fix_task[a].status = "running"
                      THEN [fix_task[a] EXCEPT !.status = "cancelled"]
                      ELSE fix_task[a]]
    /\ final_results' = [a \in Agents |->
                           IF a \in Range(selected)
                           THEN fix_result(timeout_outcome(fix_task[a]))
                           ELSE None]
    /\ assign_pc' = "done"
    /\ UNCHANGED <<smVars, current, orchVars, wtVars, scVars, llms, is_available, council_pc, selected>>

(***************************************************************************)
(* EnhancedLLMCouncil.                                                     *)
(***************************************************************************)
\* EnhancedLLMCouncil.__init__
InitOrch ==
    /\ state_machines = <<>>
    /\ orch_pc = "new"
    /\ orch_vuln = 1
    /\ available_machines = <<>>
    /\ idx = 0
    /\ llm_tasks = <<>>
    /\ results = [a \in Agents |-> None]
    /\ solutions = [v \in Vulns |-> None]
    /\ report = None

WorktreeDir(v, a) == [dir |-> a, issue |-> v]

\* initialize_with_state_machines: probe the agents, build one machine for
\* each agent kept, with council = self
InitializeWithStateMachines(avail) ==
    /\ orch_pc = "new"
    /\ council_pc = "new"
    /\ llms' = initialize_council(llms, avail)
    /\ is_available' = probed(llms, is_available, avail)
    /\ council_pc' = "initialized"
    /\ state_machines' = llms'
    /\ machines' = Range(llms')
    /\ council' = [a \in Agents |-> a \in Range(llms')]
    /\ orch_pc' = "ready"
    /\ UNCHANGED <<wtVars, scVars, self_of, state, state_history, context, pc, arg, exc, response,
                   result, calls, run_start, llm_calls, current, assign_pc,
                   selected, fix_task, timed_out, final_results, orch_vuln,
                   available_machines, idx, llm_tasks, results, solutions, report>>

\* orchestrate_vulnerability_fix raises before any work: no machine was
\* built, or the worktree manager cannot be initialized
OrchestrateRaises ==
    /\ orch_pc = "ready"
    /\ orch_pc' = "raised"
    /\ UNCHANGED <<smVars, current, councilVars, wtVars, scVars, state_machines, orch_vuln,
                   available_machines, idx, llm_tasks, results, solutions, report>>

\* orchestrate_vulnerability_fix up to the preparation loop
OrchestrateVulnerabilityFix(v) ==
    /\ orch_pc = "ready"
    /\ current = NoTask
    /\ state_machines # <<>>
    /\ orch_vuln' = v
    /\ available_machines' = Take(state_machines, MachineLimit)
    /\ llm_tasks' = <<>>
    /\ results' = [a \in Agents |-> None]
    /\ idx' = 1
    /\ orch_pc' = "preparing"
    /\ current' = OrchTask
    /\ UNCHANGED <<smVars, councilVars, wtVars, scVars, state_machines, solutions, report>>

\* where the orchestrator goes once the preparation loop is over
after_preparing(i, tasks) ==
    IF i <= Len(available_machines) THEN "preparing"
    ELSE IF tasks # <<>> THEN "gathering" ELSE "reporting"

\* one turn of the preparation loop: the worktree is created and the
\* workflow is started as a task
PrepareWorkflow ==
    /\ orch_pc = "preparing"
    /\ idx <= Len(available_machines)
    /\ LET a == available_machines[idx] IN
        /\ pc[a] \in {"idle", "returned"}
        /\ pc' = [pc EXCEPT ![a] = "scheduled"]
        /\ arg' = [arg EXCEPT ![a] = orch_vuln]
        /\ calls' = [calls EXCEPT ![a] = @ + 1]
        /\ llm_tasks' = Append(llm_tasks, a)
    /\ idx' = idx + 1
    /\ orch_pc' = after_preparing(idx', llm_tasks')
    /\ current' = IF orch_pc' = "gathering" THEN NoTask ELSE OrchTask
    /\ UNCHANGED <<machines, self_of, council, state, state_history, context, exc,
                   response, result, run_start, llm_calls, councilVars, wtVars, scVars,
                   state_machines, orch_vuln, available_machines, results,
                   solutions, report>>

\* the entry recorded when preparing an agent fails
preparation_failure ==
    [success |-> FALSE, error |-> "WorktreeError", artifacts |-> None,
     worktree_dir |-> None, branch |-> None, commit |-> "None", pr_url |-> "None"]

\* a preparation failure that aborts the whole orchestration
PrepareWorkflowFailsAborts ==
    /\ orch_pc = "preparing"
    /\ idx <= Len(available_machines)
    /\ orch_pc' = "raised"
    /\ current' = NoTask
    /\ UNCHANGED <<smVars, councilVars, wtVars, scVars, state_machines, orch_vuln,
                   available_machines, idx, llm_tasks, results, solutions,
                   report>>

\* one turn of the preparation loop: create_worktree_for_llm fails
PrepareWorkflowFails ==
    /\ orch_pc = "preparing"
    /\ idx <= Len(available_machines)
    /\ results' = [results EXCEPT ![available_machines[idx]] = preparation_failure]
    /\ idx' = idx + 1
    /\ orch_pc' = after_preparing(idx', llm_tasks)
    /\ current' = IF orch_pc' = "gathering" THEN NoTask ELSE OrchTask
    /\ UNCHANGED <<smVars, councilVars, wtVars, scVars, state_machines, orch_vuln,
                   available_machines, llm_tasks, solutions, report>>

\* asyncio.gather(*tasks, return_exceptions=True) completes: every workflow
\* task has finished.  No timeout bounds this wait.
GatherCompletes ==
    /\ orch_pc = "gathering"
    /\ current = NoTask
    /\ \A a \in Range(llm_tasks) : pc[a] \in {"returned", "raised"}
    /\ orch_pc' = "processing"
    /\ idx' = 1
    /\ current' = OrchTask
    /\ UNCHANGED <<smVars, councilVars, wtVars, scVars, state_machines, orch_vuln,
                   available_machines, llm_tasks, results, solutions, report>>

\* result.get('artifacts', {}).get('fix_code')
fix_code_of(res) ==
    IF "artifacts" \in DOMAIN res /\ "fix_code" \in DOMAIN res.artifacts
    THEN res.artifacts.fix_code
    ELSE None

\* the entry of a workflow that raised
workflow_failure(v, a) ==
    [success |-> FALSE, error |-> "WorkflowException", artifacts |-> None,
     worktree_dir |-> WorktreeDir(v, a), branch |-> BranchOf(v, a),
     commit |-> "None", pr_url |-> "None"]

\* what commit_changes, push_to_github and create_pull_request may do: give
\* their result, give a falsy one, or raise
Outcomes == {"ok", "fails", "raises"}

\* the entry of a workflow that returned, after the fix was applied if
\* there is one; an exception while applying it is recorded in the entry
workflow_success(v, a, res, commit, push, pr) ==
    LET applies == /\ fix_code_of(res) # None
                   /\ fix_code_of(res).fixed_files = "nonempty"
        committed == applies /\ commit = "ok"
        pushed == committed /\ push = "ok"
        raised == \/ applies /\ commit = "raises"
                  \/ committed /\ push = "raises"
                  \/ pushed /\ pr = "raises"
    IN [success |-> TRUE,
        error |-> IF raised THEN "ApplyError" ELSE "None",
        artifacts |-> res,
        worktree_dir |-> WorktreeDir(v, a), branch |-> BranchOf(v, a),
        commit |-> IF committed THEN "hash" ELSE "None",
        pr_url |-> IF pushed /\ pr = "ok" THEN "url" ELSE "None"]

\* one turn of the processing loop
ProcessResult(commit, push, pr) ==
    /\ orch_pc = "processing"
    /\ idx <= Len(llm_tasks)
    /\ LET a == llm_tasks[idx] IN
        results' = [results EXCEPT ![a] =
                      IF pc[a] = "raised"
                      THEN workflow_failure(orch_vuln, a)
                      ELSE workflow_success(orch_vuln, a, result[a],
                                            commit, push, pr)]
    /\ idx' = idx + 1
    /\ orch_pc' = IF idx' <= Len(llm_tasks) THEN "processing" ELSE "reporting"
    /\ UNCHANGED <<smVars, current, councilVars, wtVars, scVars, state_machines, orch_vuln,
                   available_machines, llm_tasks, solutions, report>>

\* report['comparative_analysis'] with a threshold that asks for three
\* successes before it compares
comparative_analysis_needs_three(successful) ==
    IF Cardinality(successful) > 2
    THEN [multiple_solutions |-> TRUE, recommended_approach |-> "review_all",
          note |-> Cardinality(successful)]
    ELSE IF Cardinality(successful) = 1
    THEN [multiple_solutions |-> FALSE,
          single_solution_by |-> CHOOSE a \in successful : TRUE,
          recommended_approach |-> "review_single"]
    ELSE [multiple_solutions |-> FALSE, all_failed |-> TRUE,
          recommended_approach |-> "manual_review"]

\* report['comparative_analysis'], by the successful entries
comparative_analysis(successful) ==
    IF Cardinality(successful) > 1
    THEN [multiple_solutions |-> TRUE, recommended_approach |-> "review_all",
          note |-> Cardinality(successful)]
    ELSE IF Cardinality(successful) = 1
    THEN [multiple_solutions |-> FALSE,
          single_solution_by |-> CHOOSE a \in successful : TRUE,
          recommended_approach |-> "review_single"]
    ELSE [multiple_solutions |-> FALSE, all_failed |-> TRUE,
          recommended_approach |-> "manual_review"]

\* report['recommendations'], by the number of successes
recommendation(n) ==
    IF n >= 2 THEN "compare_all"
    ELSE IF n = 1 THEN "review_single"
    ELSE "manual_review"

\* _generate_comparative_report
generate_comparative_report(v, res) ==
    LET names == {a \in Agents : res[a] # None}
        successful == {a \in names : res[a].success}
        failed == {a \in names : ~res[a].success}
    IN [vulnerability_id |-> v,
        summary |-> [total_llms |-> Cardinality(names),
                     successful |-> Cardinality(successful),
                     failed |-> Cardinality(failed)],
        solutions |-> [a \in names |->
                         IF res[a].success
                         THEN [status |-> "success",
                               branch |-> res[a].branch,
                               worktree_dir |-> res[a].worktree_dir,
                               pr_url |-> res[a].pr_url,
                               commit |-> res[a].commit,
                               has_test |-> "test_design" \in DOMAIN res[a].artifacts
                                            /\ res[a].artifacts.test_design # None,
                               has_fix |-> "fix_code" \in DOMAIN res[a].artifacts
                                           /\ res[a].artifacts.fix_code # None,
                               has_documentation |->
                                   "documentation" \in DOMAIN res[a].artifacts
                                   /\ res[a].artifacts.documentation # None]
                         ELSE [status |-> "failed",
                               error |-> res[a].error,
                               worktree_dir |-> res[a].worktree_dir]],
        comparative_analysis |-> comparative_analysis(successful),
        recommendations |-> recommendation(Cardinality(successful))]

\* self.solutions[vulnerability_id] = results, the council session (which
\* only prints) and the report
GenerateReport ==
    /\ orch_pc = "reporting"
    /\ solutions' = [solutions EXCEPT ![orch_vuln] = results]
    /\ report' = generate_comparative_report(orch_vuln, results)
    /\ orch_pc' = "done"
    /\ current' = NoTask
    /\ UNCHANGED <<smVars, councilVars, wtVars, scVars, state_machines, orch_vuln,
                   available_machines, idx, llm_tasks, results>>

(***************************************************************************)
(* GitWorktreeManager.  Names are sequences of characters.                 *)
(***************************************************************************)
Dirs == 1 .. MaxDirs

\* c.isalnum() for the characters used in the names below
Alnum == {"a", "b", "c", "d", "f", "g", "h", "i", "m", "n", "t", "x", "y", "4"}

\* c.isalnum() or c in '-_'
Safe(c) == c \in Alnum \/ c \in {"-", "_"}

\* the agent names and issue ids the manager is called with
AgentNames == {<<"g">>, <<"g", "4">>}
IssueIds == {<<"a", "b">>, <<"a", ".", "b">>}

\* base_branch = "main"
BaseBranch == <<"m", "a", "i", "n">>

\* safe_issue_id
sanitize(issue_id) == SelectSeq(issue_id, Safe)

\* a branch name that leaves the agent out
branch_name_without_agent(llm_name, issue_id) ==
    <<"t", "d", "h", "-", "f", "i", "x", "/">> \o sanitize(issue_id)

\* f"tdh-fix/{safe_issue_id}-by-{llm_name}"
branch_name(llm_name, issue_id) ==
    <<"t", "d", "h", "-", "f", "i", "x", "/">> \o sanitize(issue_id)
        \o <<"-", "b", "y", "-">> \o llm_name

\* the branch names the manager is called with
Branches == {branch_name(l, i) : l \in AgentNames, i \in IssueIds}

\* s in t, for strings
IsSubstring(s, t) ==
    \E i \in 0 .. (Len(t) - Len(s)) : SubSeq(t, i + 1, i + Len(s)) = s

\* `branch_name in branches`, where branches is the text `git branch -a`
\* prints: one line for every branch
listed(b, brs) == \E x \in brs \cup {BaseBranch} : IsSubstring(b, x)

\* d[k] = v, and del d[k] for the keys ks
Put(f, k, v) == [x \in DOMAIN f \cup {k} |-> IF x = k THEN v ELSE f[x]]
Drop(f, ks) == [x \in DOMAIN f \ ks |-> f[x]]

\* Paths are sequences of components.  The directory mkdtemp returns for d,
\* and self.base_dir
WorktreePath(d) == <<"tmp", ToString(d)>>
BaseDir == <<"base">>

\* the files of the repository, relative to the root of a working tree; the
\* tree of origin/main holds the first one
RelFiles == {<<"f">>, <<"n">>}
Contents == {"old", "new"}
BaseTree == [p \in {<<"f">>} |-> "old"]

\* the path the operating system opens: `..` steps to the parent
RECURSIVE Normalize(_, _)
Normalize(done, rest) ==
    IF rest = <<>> THEN done
    ELSE IF Head(rest) = ".."
         THEN Normalize(SubSeq(done, 1, Len(done) - 1), Tail(rest))
         ELSE Normalize(Append(done, Head(rest)), Tail(rest))

\* Path(worktree_dir) / file_path: an absolute file_path replaces the
\* directory
full_path(worktree_dir, file_path) ==
    IF file_path # <<>> /\ Head(file_path) = "/"
    THEN Normalize(<<>>, Tail(file_path))
    ELSE Normalize(<<>>, worktree_dir \o file_path)

\* path lies below the directory dir
Under(path, dir) ==
    Len(path) > Len(dir) /\ SubSeq(path, 1, Len(dir)) = dir

\* the files of the working tree in directory d, relative to its root
WorkingTree(files, d) ==
    [p \in {q \in RelFiles : WorktreePath(d) \o q \in DOMAIN files} |->
        files[WorktreePath(d) \o p]]

\* the .git file that makes directory d a working tree of the clone
GitFile(d) == WorktreePath(d) \o <<".git">>

\* git checks the tree out into directory d; shutil.rmtree of directory d
Checkout(files, d, tree) ==
    [x \in DOMAIN files \cup {GitFile(d)}
            \cup {WorktreePath(d) \o p : p \in DOMAIN tree} |->
        IF x = GitFile(d) THEN "gitdir"
        ELSE IF \E p \in DOMAIN tree : x = WorktreePath(d) \o p
        THEN tree[SubSeq(x, Len(WorktreePath(d)) + 1, Len(x))]
        ELSE files[x]]
Rmtree(files, d) ==
    Drop(files, {x \in DOMAIN files : Under(x, WorktreePath(d))})

\* the git commands of create_worktree_for_llm, and the one that fails
GitSteps == {"fetch", "branch", "worktree_add", "set_url"}

\* URLs are sequences of parts.  self.repo_url, the URL of some other
\* repository, and self._authenticated_repo_url
RepoUrl == <<"https://", "github.com/o/r.git">>
OtherUrl == <<"https://", "github.com/o/x.git">>
add_auth_to_url(token) ==
    IF ~token THEN RepoUrl
    ELSE IF Head(RepoUrl) = "https://" /\ ~IsSubstring(<<"@">>, RepoUrl)
    THEN <<"https://", "T", "@">> \o Tail(RepoUrl)
    ELSE RepoUrl

\* GitWorktreeManager.__init__ and setup_main_repo: a canonical clone
\* without worktrees
NewManager(token) ==
    /\ worktrees = <<>>
    /\ branches = {}
    /\ git_worktrees = <<>>
    /\ disk = {}
    /\ ret = [op |-> "none"]
    /\ created = {}
    /\ fs = <<>>
    /\ heads = <<>>
    /\ remote = <<>>
    /\ github_token = token
    /\ base = "clone"
    /\ origin_url = add_auth_to_url(token)

\* a manager that was given a token
InitWorktrees == NewManager(TRUE)

\* the branches checked out in a worktree git has registered
checked_out == {git_worktrees[d] : d \in DOMAIN git_worktrees}

\* tempfile.mkdtemp: a directory that did not exist
mkdtemp == Dirs \ disk

\* the metadata saved for a worktree
worktree_info(worktree_dir, llm_name, issue_id) ==
    [dir |-> worktree_dir, llm_name |-> llm_name, issue_id |-> issue_id,
     base_branch |-> BaseBranch, status |-> "created", commit_hash |-> 0]

\* an except clause that leaves the directory behind
create_failed_keeps_dir(worktree_dir) ==
    /\ disk' = disk \cup {worktree_dir}
    /\ UNCHANGED <<worktrees, created>>

\* the except clause of create_worktree_for_llm: the directory is removed
create_failed(worktree_dir) ==
    /\ disk' = (disk \cup {worktree_dir}) \ {worktree_dir}
    /\ UNCHANGED <<worktrees, created>>

\* create_worktree_for_llm(llm_name, issue_id): mkdtemp returns worktree_dir
\* and the git command `fails` (or none) fails for a reason of its own
CreateWorktreeForLlm(llm_name, issue_id, worktree_dir, fails) ==
    LET b == branch_name(llm_name, issue_id)
        fetched == fails # "fetch" /\ base = "clone"
        creates == fetched /\ ~listed(b, branches)
        branched == fetched /\ (creates => fails # "branch")
        branches1 == IF creates /\ branched THEN branches \cup {b} ELSE branches
        \* git worktree add needs the branch to exist, not to be checked out
        \* in a worktree, and the path not to be a registered worktree
        added == /\ branched
                 /\ fails # "worktree_add"
                 /\ b \in branches1
                 /\ b \notin checked_out
                 /\ worktree_dir \notin DOMAIN git_worktrees
        \* the git command whose failure the call raises
        failed == IF ~fetched THEN "fetch"
                  ELSE IF ~branched THEN "branch"
                  ELSE IF ~added THEN "worktree_add"
                  ELSE IF fails = "set_url" THEN "set_url"
                  ELSE "none"
        ok == failed = "none"
    IN /\ worktree_dir \in mkdtemp
       /\ branches' = branches1
       /\ heads' = IF creates /\ branched
                   THEN Put(heads, b, [n |-> 0, tree |-> BaseTree])
                   ELSE heads
       /\ fs' = IF ok THEN Checkout(fs, worktree_dir, heads'[b].tree) ELSE fs
       /\ git_worktrees' =
             IF added
             THEN [d \in DOMAIN git_worktrees \cup {worktree_dir} |->
                      IF d = worktree_dir THEN b ELSE git_worktrees[d]]
             ELSE git_worktrees
       /\ IF ok
          THEN /\ worktrees' =
                     [x \in DOMAIN worktrees \cup {b} |->
                         IF x = b
                         THEN worktree_info(worktree_dir, llm_name, issue_id)
                         ELSE worktrees[x]]
               /\ disk' = disk \cup {worktree_dir}
               /\ created' = created \cup
                     {[llm_name |-> llm_name, issue_id |-> issue_id,
                       dir |-> worktree_dir, branch |-> b]}
          ELSE create_failed(worktree_dir)
       /\ ret' = [op |-> "create", llm_name |-> llm_name,
                  issue_id |-> issue_id, dir |-> worktree_dir, branch |-> b,
                  failed |-> failed,
                  outcome |-> IF ok THEN "ok" ELSE "raised"]
       \* `git remote set-url` in a worktree writes the configuration the
       \* worktrees share with the canonical clone
       /\ origin_url' = IF ok THEN add_auth_to_url(github_token) ELSE origin_url
       /\ UNCHANGED <<remote, github_token, base>>
       /\ UNCHANGED <<smVars, scVars, current, councilVars, orchVars>>

\* the files mappings the agents hand in: one path, relative, leaving the
\* directory through `..`, or absolute
FileKeys == RelFiles \cup {<<"..", "f">>, <<"/", "base", "f">>}
FixedFiles ==
    [{<<"f">>} -> Contents] \cup UNION {[{k} -> {"new"}] : k \in FileKeys}

\* the steps of apply_llm_fix that can fail for a reason of their own
ApplySteps == {"add", "commit"}

\* the for loop of apply_llm_fix: the paths written, and the files after it
written_paths(worktree_dir, fixed_files) ==
    {full_path(WorktreePath(worktree_dir), k) : k \in DOMAIN fixed_files}
write_files(files, worktree_dir, fixed_files) ==
    [x \in DOMAIN files \cup written_paths(worktree_dir, fixed_files) |->
        IF x \in written_paths(worktree_dir, fixed_files)
        THEN fixed_files[CHOOSE k \in DOMAIN fixed_files :
                            full_path(WorktreePath(worktree_dir), k) = x]
        ELSE files[x]]

\* a status test that always sees changes
has_changes_always(files, worktree_dir, b) == TRUE

\* `git status --porcelain` prints something: the working tree, all of it
\* staged by `git add .`, differs from the head of the branch
has_changes(files, worktree_dir, b) ==
    WorkingTree(files, worktree_dir) # heads[b].tree

\* apply_llm_fix(branch_name, fixed_files, llm_name); the commit hash is the
\* number of the commit on its branch, 0 standing for the empty string
ApplyLlmFix(b, fixed_files, fails) ==
    IF b \notin DOMAIN worktrees
    THEN /\ ret' = [op |-> "apply", branch |-> b, files |-> fixed_files,
                    failed |-> "none", outcome |-> "raised", value |-> 0]
         /\ UNCHANGED <<worktrees, branches, git_worktrees, disk, created,
                        fs, heads, remote, github_token, base, origin_url>>
         /\ UNCHANGED <<smVars, scVars, current, councilVars, orchVars>>
    ELSE LET d == worktrees[b].dir
             fs1 == write_files(fs, d, fixed_files)
             \* mkdir(parents=True) makes the directory of every file
             disk1 == disk \cup {x \in Dirs :
                         \E w \in written_paths(d, fixed_files) :
                             Under(w, WorktreePath(x))}
             added == fails # "add" /\ GitFile(d) \in DOMAIN fs1
             commits == added /\ has_changes(fs1, d, b)
             committed == commits /\ fails # "commit"
             hash == heads[b].n + 1
             \* the git command whose failure the call raises
             failed == IF ~added THEN "add"
                       ELSE IF commits /\ ~committed THEN "commit"
                       ELSE "none"
         IN /\ commits => heads[b].n < MaxCommits
            /\ fs' = fs1
            /\ disk' = disk1
            /\ heads' = IF committed
                        THEN [heads EXCEPT ![b] =
                                 [n |-> hash, tree |-> WorkingTree(fs1, d)]]
                        ELSE heads
            /\ worktrees' = IF committed
                            THEN [worktrees EXCEPT ![b].status = "committed",
                                                   ![b].commit_hash = hash]
                            ELSE worktrees
            /\ ret' = [op |-> "apply", branch |-> b, files |-> fixed_files,
                       failed |-> failed,
                       outcome |-> IF failed = "none" THEN "ok" ELSE "raised",
                       value |-> IF committed THEN hash ELSE 0]
            /\ UNCHANGED <<branches, git_worktrees, created, remote, github_token,
                           base, origin_url>>
            /\ UNCHANGED <<smVars, scVars, current, councilVars, orchVars>>

\* how a git command can fail: git exits with an error (the remote rejects
\* the push, say) or it does not finish within the timeout
GitFailures == {"CalledProcessError", "TimeoutExpired"}

\* _run_git: what it raises for a failure of subprocess.run
run_git(failure) ==
    IF failure \in GitFailures THEN "Exception" ELSE failure

\* `except subprocess.CalledProcessError` of push_to_github
push_catches(e) == e = "CalledProcessError"

\* push_to_github(branch_name)
PushToGithub(b, fails) ==
    IF b \notin DOMAIN worktrees
    THEN /\ ret' = [op |-> "push", branch |-> b, failure |-> "none",
                    outcome |-> "returned", success |-> FALSE]
         /\ UNCHANGED <<worktrees, branches, git_worktrees, disk, created,
                        fs, heads, remote, github_token, base, origin_url>>
         /\ UNCHANGED <<smVars, scVars, current, councilVars, orchVars>>
    ELSE LET d == worktrees[b].dir
             \* subprocess.run cannot start in a directory that is gone, and
             \* git fails in one that is not a working tree
             failure == IF d \notin disk THEN "FileNotFoundError"
                        ELSE IF GitFile(d) \notin DOMAIN fs
                        THEN "CalledProcessError"
                        ELSE fails
             pushed == failure = "none"
         IN /\ remote' = IF pushed THEN Put(remote, b, heads[b].n) ELSE remote
            /\ worktrees' = IF pushed
                            THEN [worktrees EXCEPT ![b].status = "pushed"]
                            ELSE worktrees
            /\ ret' = [op |-> "push", branch |-> b, failure |-> failure,
                       outcome |-> IF pushed \/ push_catches(run_git(failure))
                                   THEN "returned" ELSE "raised",
                       success |-> pushed]
            /\ UNCHANGED <<branches, git_worktrees, disk, created, fs, heads,
                           github_token, base, origin_url>>
            /\ UNCHANGED <<smVars, scVars, current, councilVars, orchVars>>

\* the steps of cleanup_worktree that can fail for a reason of their own
CleanupSteps == {"worktree_remove", "branch_delete", "push_delete"}

\* how a caller passes keep_remote, and the value the callee then sees
KeepArgs == {"default", "true", "false"}
keep_remote_of(given, default) ==
    IF given = "default" THEN default ELSE given = "true"

\* the defaults of cleanup_worktree and of cleanup_all
cleanup_worktree_default == FALSE
cleanup_all_default == TRUE

\* the repository and the registry, as the steps of a cleanup pass them on
RepoState ==
    [worktrees |-> worktrees, branches |-> branches, heads |-> heads,
     git_worktrees |-> git_worktrees, disk |-> disk, fs |-> fs,
     remote |-> remote, failed |-> {}, raised |-> FALSE]

\* a deletion of the local branch whose failure is not caught
branch_delete_uncaught(failed) == failed

\* the try/except around `git branch -D`: does its failure propagate
branch_delete_raises(failed) == FALSE

\* cleanup_worktree(branch_name, keep_remote) on the state st, the steps in
\* fails failing for a reason of their own
cleanup_worktree(st, b, keep_remote, fails) ==
    IF b \notin DOMAIN st.worktrees THEN st
    ELSE
    LET d == st.worktrees[b].dir
        exists == d \in st.disk
        \* 1. git worktree remove -f, else shutil.rmtree
        removed == /\ exists
                   /\ "worktree_remove" \notin fails
                   /\ d \in DOMAIN st.git_worktrees
                   /\ GitFile(d) \in DOMAIN st.fs
        st1 == IF exists
               THEN [st EXCEPT !.disk = @ \ {d},
                               !.fs = Rmtree(@, d),
                               !.git_worktrees =
                                   IF removed THEN Drop(@, {d}) ELSE @,
                               !.failed =
                                   IF removed THEN @
                                   ELSE @ \cup {"worktree_remove"}]
               ELSE st
        \* 2. git branch -D, which git refuses for a branch that is checked
        \* out in a worktree it still has on record
        still_checked_out ==
            {st1.git_worktrees[x] : x \in DOMAIN st1.git_worktrees}
        deleted == /\ "branch_delete" \notin fails
                   /\ b \in st1.branches
                   /\ b \notin still_checked_out
        st2 == IF deleted
               THEN [st1 EXCEPT !.branches = @ \ {b}, !.heads = Drop(@, {b})]
               ELSE [st1 EXCEPT !.failed = @ \cup {"branch_delete"}]
        \* 3. git push origin --delete
        tries_remote == ~keep_remote /\ github_token
        remote_deleted == /\ tries_remote
                          /\ "push_delete" \notin fails
                          /\ b \in DOMAIN st2.remote
        st3 == IF remote_deleted
               THEN [st2 EXCEPT !.remote = Drop(@, {b})]
               ELSE IF tries_remote
               THEN [st2 EXCEPT !.failed = @ \cup {"push_delete"}]
               ELSE st2
    IN IF branch_delete_raises(~deleted)
       THEN [st2 EXCEPT !.raised = TRUE]
       \* 4. del self.worktrees[branch_name]
       ELSE [st3 EXCEPT !.worktrees = Drop(@, {b})]

\* the loop of cleanup_all over list(self.worktrees.keys())
RECURSIVE cleanup_each(_, _, _, _)
cleanup_each(st, bs, keep_remote, fails) ==
    IF bs = {} \/ st.raised THEN st
    ELSE LET b == CHOOSE x \in bs : TRUE
         IN cleanup_each(cleanup_worktree(st, b, keep_remote, fails),
                         bs \ {b}, keep_remote, fails)

\* the state a cleanup leaves
CleanedUp(st) ==
    /\ worktrees' = st.worktrees
    /\ branches' = st.branches
    /\ heads' = st.heads
    /\ git_worktrees' = st.git_worktrees
    /\ disk' = st.disk
    /\ fs' = st.fs
    /\ remote' = st.remote
    /\ UNCHANGED <<created, github_token, base, origin_url>>
    /\ UNCHANGED <<smVars, scVars, current, councilVars, orchVars>>

\* cleanup_worktree(branch_name), cleanup_worktree(branch_name, keep_remote)
CleanupWorktree(b, keep_arg, fails) ==
    LET st == cleanup_worktree(RepoState, b,
                  keep_remote_of(keep_arg, cleanup_worktree_default), fails)
    IN /\ CleanedUp(st)
       /\ ret' = [op |-> "cleanup", branches |-> {b}, keep_remote |-> keep_arg,
                  failed |-> st.failed,
                  outcome |-> IF st.raised THEN "raised" ELSE "returned"]

\* cleanup_all(), cleanup_all(keep_remote)
CleanupAll(keep_arg, fails) ==
    LET st == cleanup_each(RepoState, DOMAIN worktrees,
                  keep_remote_of(keep_arg, cleanup_all_default), fails)
    IN /\ CleanedUp(st)
       /\ ret' = [op |-> "cleanup_all", branches |-> DOMAIN worktrees,
                  keep_remote |-> keep_arg, failed |-> st.failed,
                  outcome |-> IF st.raised THEN "raised" ELSE "returned"]

\* something outside the manager deletes the directory of a worktree
DirectoryDeleted(d) ==
    /\ d \in disk
    /\ disk' = disk \ {d}
    /\ fs' = Rmtree(fs, d)
    /\ UNCHANGED <<worktrees, branches, git_worktrees, ret, created, heads,
                   remote, github_token, base, origin_url>>
    /\ UNCHANGED <<smVars, scVars, current, councilVars, orchVars>>

\* clean_url of _clone_repo: the URL without credentials
clean_url(url) ==
    IF IsSubstring(<<"@">>, url)
    THEN <<"https://">> \o
         SubSeq(url, 1 + (CHOOSE i \in 1 .. Len(url) : url[i] = "@"), Len(url))
    ELSE url

\* `self.repo_url in current_remote or current_remote in self.repo_url`
same_remote(current_remote) ==
    IsSubstring(RepoUrl, current_remote) \/ IsSubstring(current_remote, RepoUrl)

\* the clone attempts one call of setup_main_repo can make, by its structure
CloneAttempts == 1 .. 4

\* _clone_repo, its attempts taking their outcomes from clone_ok[k] on: the
\* URLs tried, whether a clone was made, and its URL
clone_repo(clone_ok, k) ==
    IF clone_ok[k]
    THEN [urls |-> <<add_auth_to_url(github_token)>>, ok |-> TRUE,
          url |-> add_auth_to_url(github_token)]
    ELSE [urls |-> <<add_auth_to_url(github_token), clean_url(RepoUrl)>>,
          ok |-> clone_ok[k + 1], url |-> clean_url(RepoUrl)]

\* setup_main_repo(): config_ok and fetch_ok say whether `git config --get`
\* and `git fetch` work should they be run, clone_ok whether each clone does
SetupMainRepo(config_ok, fetch_ok, clone_ok) ==
    LET valid == base = "clone"
        reads == config_ok /\ origin_url # <<>>
        path == IF ~valid THEN "new"
                ELSE IF ~reads THEN "recreate"
                ELSE IF ~same_remote(origin_url) THEN "different"
                ELSE IF fetch_ok THEN "fetch"
                ELSE "recreate"
        first == clone_repo(clone_ok, 1)
        \* the bare except of the valid-repository branch also catches the
        \* failure of the _clone_repo made for a different remote
        again == path = "different" /\ ~first.ok
        second == clone_repo(clone_ok, 3)
        last == IF again THEN second ELSE first
        clones == IF path = "fetch" THEN <<>>
                  ELSE IF again THEN first.urls \o second.urls
                  ELSE first.urls
        wiped == path # "fetch"
        ok == wiped => last.ok
    IN /\ base' = IF ok THEN "clone" ELSE "empty"
       /\ origin_url' = IF ~wiped THEN origin_url
                        ELSE IF ok THEN last.url ELSE <<>>
       /\ branches' = IF wiped THEN {} ELSE branches
       /\ heads' = IF wiped THEN <<>> ELSE heads
       /\ git_worktrees' = IF wiped THEN <<>> ELSE git_worktrees
       /\ fs' = IF wiped
                THEN Drop(fs, {x \in DOMAIN fs : Under(x, BaseDir)})
                ELSE fs
       /\ ret' = [op |-> "setup", path |-> path, clones |-> clones,
                  wiped |-> wiped,
                  outcome |-> IF ok THEN "returned" ELSE "raised"]
       /\ UNCHANGED <<worktrees, disk, created, remote, github_token>>
       /\ UNCHANGED <<smVars, scVars, current, councilVars, orchVars>>

\* A text is its number of lines and whether a newline ends the last one;
\* file_content.split('\n') is then the list of the lines, each line standing
\* for its number, followed by the empty string (0) after a final newline
Texts == [n : 1 .. MaxLines, trailing : BOOLEAN]
split_lines(text) ==
    [i \in 1 .. text.n |-> i] \o (IF text.trailing THEN <<0>> ELSE <<>>)

\* the values of sast_issue["line"]; 0 is the default of .get("line", 0)
LineNums == (0 - 6) .. (MaxLines + 6)

Max(x, y) == IF x >= y THEN x ELSE y

\* Python's seq[a:b]; a negative index counts from the end
PySlice(seq, a, b) ==
    LET norm(i) == IF i < 0 THEN Max(0, i + Len(seq)) ELSE Min(i, Len(seq))
    IN SubSeq(seq, norm(a) + 1, norm(b))

\* start_line and end_line of prepare_llm_context
start_line(line_num) == Max(0, line_num - 6)
end_line(lines, line_num) == Min(Len(lines), line_num + 4)

\* code.vulnerable_section and code.line_numbers: the lines extracted, each
\* with its marker
vulnerable_section(lines, line_num) ==
    LET context_lines ==
            PySlice(lines, start_line(line_num), end_line(lines, line_num))
    IN IF 0 <= line_num - 1 /\ line_num - 1 < Len(lines)
       THEN [j \in 1 .. Len(context_lines) |->
                [line |-> context_lines[j],
                 marked |-> start_line(line_num) + j = line_num]]
       ELSE [j \in 1 .. Len(context_lines) |->
                [line |-> context_lines[j], marked |-> FALSE]]
line_numbers(lines, line_num) ==
    <<start_line(line_num) + 1, end_line(lines, line_num)>>

\* prepare_llm_context(branch_name, sast_issue) with sast_issue["file"] =
\* file_path and sast_issue["line"] = line_num
PrepareLlmContext(b, file_path, line_num) ==
    /\ IF b \notin DOMAIN worktrees
       THEN ret' = [op |-> "context", branch |-> b, file |-> file_path,
                    line |-> line_num, outcome |-> "ValueError"]
       ELSE LET p == full_path(WorktreePath(worktrees[b].dir), file_path) IN
            IF p \notin DOMAIN fs
            THEN ret' = [op |-> "context", branch |-> b, file |-> file_path,
                         line |-> line_num, outcome |-> "FileNotFoundError"]
            ELSE ret' = [op |-> "context", branch |-> b, file |-> file_path,
                         line |-> line_num, outcome |-> "ok",
                         text |-> fs[p],
                         vulnerable_section |->
                             vulnerable_section(split_lines(fs[p]), line_num),
                         line_numbers |->
                             line_numbers(split_lines(fs[p]), line_num)]
    /\ UNCHANGED <<worktrees, branches, git_worktrees, disk, created, fs,
                   heads, remote, github_token, base, origin_url>>
    /\ UNCHANGED <<smVars, scVars, current, councilVars, orchVars>>

(***************************************************************************)
(* FixScorer.  Weights are counted in ten-thousandths, sub-scores in       *)
(* hundredths of a point and totals in their product (millionths of a      *)
(* point), so that the arithmetic of the scorer is exact.                  *)
(***************************************************************************)
\* 1.0 as a weight
One == 10000
\* 0.001 as a weight
Tolerance == 10
\* p points as a sub-score
Points(p) == p * 100
\* 70.0 as a total: the acceptance threshold of score and of the engine
AcceptanceThreshold == 70 * 100 * One

Abs(x) == IF x >= 0 THEN x ELSE 0 - x

\* the dict {}
EmptyDict == [k \in {} |-> 0]

\* the weights FixScorer uses when it is given none
DefaultWeights ==
    [complexity |-> 2500, dependencies |-> 2000, loc_delta |-> 1500,
     test_coverage |-> 2500, beauty |-> 1500]

\* the weights arguments FixScorer is constructed with: no argument, the
\* empty dict, and dicts that sum to 1.0, to 1.0005, 0.9995, 1.0009, 1.0011
\* and 0.9989; exactly at 1.0 +- 0.001 the rounding of the binary fractions
\* decides `abs(total - 1.0) > 0.001`, so no argument sits there
WeightArgs ==
    {[given |-> FALSE, dict |-> EmptyDict],
     [given |-> TRUE, dict |-> EmptyDict],
     [given |-> TRUE, dict |-> DefaultWeights]}
    \cup {[given |-> TRUE, dict |-> [DefaultWeights EXCEPT !.beauty = b]] :
             b \in {1505, 1495, 1509, 1511, 1489}}
    \cup {[given |-> TRUE,
           dict |-> [DefaultWeights EXCEPT !.complexity = 7500,
                                           !.test_coverage = 0 - 2500]],
          [given |-> TRUE, dict |-> [k \in {"complexity"} |-> One]],
          [given |-> TRUE, dict |-> [k \in {"x"} |-> One]]}

\* sum(d.values())
RECURSIVE SumValues(_, _)
SumValues(d, keys) ==
    IF keys = {} THEN 0
    ELSE LET k == CHOOSE x \in keys : TRUE
         IN d[k] + SumValues(d, keys \ {k})

\* weights or {...defaults...}: None and the empty dict are both false
weights_or_default(w) ==
    IF ~w.given \/ DOMAIN w.dict = {} THEN DefaultWeights ELSE w.dict

\* abs(total - 1.0) > 0.001
weights_rejected(w) == Abs(SumValues(w, DOMAIN w) - One) > Tolerance

\* FixScorer(weights); when __init__ raises no scorer is bound
NewFixScorer(w) ==
    LET ws == weights_or_default(w) IN
    /\ scorer' = IF weights_rejected(ws) THEN scorer
                 ELSE [built |-> TRUE, weights |-> ws]
    /\ out' = [op |-> "init", weights |-> w,
               outcome |-> IF weights_rejected(ws) THEN "ValueError"
                           ELSE "returned"]
    /\ UNCHANGED <<saved, score_calls>>
    /\ UNCHANGED <<smVars, current, councilVars, orchVars, wtVars>>

(***************************************************************************)
(* Code handed to the scorer.  A text is the sequence of its lines and     *)
(* whether it ends with a newline; a line is what the patterns of the      *)
(* scorer find in it.                                                      *)
(***************************************************************************)
\* a line: len(line), the word its stripped text starts with ("" for a
\* blank line), the matches of \b\d+\b in it
Line(len, start, numbers) ==
    [len |-> len, start |-> start, numbers |-> numbers,
     \* matches of var_pattern, and those that are longer than 2 with a '_'
     assigns |-> 0, descriptive |-> 0,
     \* the languages one of whose test indicators the line contains
     test |-> {},
     \* one of the control_flow_keywords occurs in the line
     control |-> start \in {"if", "for", "while", "with"},
     \* the brackets of the line: 1 for one of '{[(' and -1 for one of '}])'
     brackets |-> <<>>]

\* a text of the given lines, with the blocks radon or lizard finds in it
\* (their cyclomatic complexities) and the imports its language's extractor
\* finds in it
Code(lines, blocks, imports) ==
    [lines |-> lines, trailing |-> lines # <<>>, parses |-> TRUE,
     blocks |-> blocks, imports |-> imports]

\* code.splitlines()
splitlines(code) == code.lines

\* code.split('\n'): one more, empty, element after a final newline, and
\* one element for the empty text
split(code) ==
    IF code.trailing \/ code.lines = <<>>
    THEN Append(code.lines, Line(0, "", 0))
    ELSE code.lines

\* sum(seq)
RECURSIVE SumSeq(_)
SumSeq(seq) == IF seq = <<>> THEN 0 ELSE Head(seq) + SumSeq(Tail(seq))

\* the number of elements of a sequence that satisfy a test
Count(test(_), seq) == Len(SelectSeq(seq, test))

\* (context or {}).get('language', 'python'), for the context None or one
\* that names the language
language_of(ctx) == IF ctx = "None" THEN "python" ELSE ctx

\* avg_complexity as a fraction: radon's blocks for python and, when radon
\* raises, the control-flow lines per ten lines; lizard's average for the
\* other languages and 5 when lizard raises
avg_complexity(code, language) ==
    LET total == SumSeq(code.blocks) IN
    IF language = "python"
    THEN IF code.parses
         THEN IF code.blocks # <<>>
              THEN [num |-> total, den |-> Len(code.blocks)]
              ELSE [num |-> 1, den |-> 1]
         ELSE [num |-> 10 * Count(LAMBDA l : l.control, split(code)),
               den |-> Max(10, Len(split(code)))]
    ELSE IF code.parses
         THEN IF code.blocks # <<>>
              THEN [num |-> total, den |-> Len(code.blocks)]
              ELSE [num |-> 0, den |-> 1]
         ELSE [num |-> 5, den |-> 1]

\* the five steps every banded sub-score uses
Band(first, second, third, fourth) ==
    IF first THEN Points(100)
    ELSE IF second THEN Points(80)
    ELSE IF third THEN Points(60)
    ELSE IF fourth THEN Points(40)
    ELSE Points(20)

\* _score_complexity
score_complexity(code, language) ==
    LET avg == avg_complexity(code, language) IN
    Band(avg.num <= 5 * avg.den, avg.num <= 10 * avg.den,
         avg.num <= 15 * avg.den, avg.num <= 20 * avg.den)

\* str.lower() of the parts import names are made of
Lower(part) == IF part = "NumPy" THEN "numpy" ELSE part

\* heavy_libs.get(language, [])
heavy_libs(language) ==
    CASE language = "python" ->
            {<<"tensorflow">>, <<"torch">>, <<"pandas">>, <<"numpy">>,
             <<"scipy">>}
      [] language = "c" ->
            {<<"windows", ".", "h">>, <<"mach", "/", "mach", ".", "h">>,
             <<"complex", ".", "h">>}
      [] language = "cpp" ->
            {<<"boost">>, <<"qt">>, <<"wx">>, <<"opencv2">>}
      [] OTHER -> {}

\* new_imports = fix_imports - original_imports
new_imports(fix_code, original_code) ==
    fix_code.imports \ original_code.imports

\* heavy_count: one for every pair of a new import and a heavy library whose
\* name the lower-cased import contains
heavy_count(new, language) ==
    Cardinality({pair \in new \X heavy_libs(language) :
                    IsSubstring(pair[2],
                                [i \in 1 .. Len(pair[1]) |-> Lower(pair[1][i])])})

\* a dependency score that asks for no heavy library only up to two new
\* imports
score_dependencies_heavy_once(fix_code, original_code, language) ==
    LET new == new_imports(fix_code, original_code)
        n == Cardinality(new)
    IN Band(n = 0, n <= 2 /\ heavy_count(new, language) = 0, n <= 5, n <= 10)

\* _score_dependencies
score_dependencies(fix_code, original_code, language) ==
    LET new == new_imports(fix_code, original_code)
        n == Cardinality(new)
        heavy == heavy_count(new, language)
    IN IF n = 0 THEN Points(100)
       ELSE IF n <= 2 /\ heavy = 0 THEN Points(80)
       ELSE IF n <= 5 /\ heavy = 0 THEN Points(60)
       ELSE IF n <= 10 THEN Points(40)
       ELSE Points(20)

\* _score_loc_delta
score_loc_delta(fix_code, original_code) ==
    LET delta == Abs(Len(splitlines(fix_code)) - Len(splitlines(original_code)))
    IN Band(delta <= 5, delta <= 10, delta <= 20, delta <= 50)

\* test_indicators.get(language, test_indicators['python'])
indicators(language) ==
    IF language \in {"python", "c", "cpp", "java"} THEN language ELSE "python"

\* _score_test_coverage: test_density = count / lines against 0.1, 0.05,
\* 0.02 and 0.01
score_test_coverage(code, language) ==
    LET count == Count(LAMBDA l : indicators(language) \in l.test, split(code))
        lines == Len(splitlines(code))
    IN IF lines = 0 THEN 0
       ELSE Band(10 * count >= lines, 20 * count >= lines,
                 50 * count >= lines, 100 * count >= lines)

\* _calculate_nesting_depth for python: a line that opens a block adds one,
\* any other line that is not blank resets the depth (a stripped line never
\* starts with a blank)
RECURSIVE python_depth(_, _, _)
python_depth(lines, current_depth, max_depth) ==
    IF lines = <<>> THEN max_depth
    ELSE LET start == Head(lines).start
             depth == IF start \in {"if", "for", "while", "def", "class", "with"}
                      THEN current_depth + 1
                      ELSE IF start # "" THEN 0 ELSE current_depth
         IN python_depth(Tail(lines), depth, Max(max_depth, depth))

\* _calculate_nesting_depth for the other languages, over the brackets of
\* the text
RECURSIVE brace_depth(_, _, _)
brace_depth(chars, depth, max_depth) ==
    IF chars = <<>> THEN max_depth
    ELSE brace_depth(Tail(chars), depth + Head(chars),
                     IF Head(chars) = 1 THEN Max(max_depth, depth + 1)
                     ELSE max_depth)

\* the brackets of a text, in order
RECURSIVE brackets_of(_)
brackets_of(lines) ==
    IF lines = <<>> THEN <<>>
    ELSE Head(lines).brackets \o brackets_of(Tail(lines))

\* _calculate_nesting_depth
calculate_nesting_depth(code, language) ==
    IF language = "python" THEN python_depth(split(code), 0, 0)
    ELSE brace_depth(brackets_of(split(code)), 0, 0)

\* a style score without the reward for descriptive names
no_reward(code, language) == 0

\* the reward of _score_beauty: (descriptive / len(variables)) * 10, for
\* python only
descriptive_reward(code, language) ==
    LET lines == split(code)
        variables == SumSeq([i \in 1 .. Len(lines) |-> lines[i].assigns])
        descriptive == SumSeq([i \in 1 .. Len(lines) |-> lines[i].descriptive])
    IN IF language = "python" /\ variables > 0
       THEN (Points(10) * descriptive) \div variables
       ELSE 0

\* a magic-number penalty for more than 5 numeric literals only
magic_penalty_above_five(magic_numbers) ==
    IF magic_numbers > 5 THEN 10 ELSE 0

\* the magic-number penalty of _score_beauty
magic_penalty(magic_numbers) ==
    IF magic_numbers > 5 THEN 10 ELSE IF magic_numbers > 3 THEN 5 ELSE 0

\* _score_beauty
score_beauty(code, language) ==
    LET lines == split(code)
        long == 5 * Count(LAMBDA l : l.len > 100, lines)
                + 2 * Count(LAMBDA l : l.len <= 100 /\ l.len > 80, lines)
        nesting_depth == calculate_nesting_depth(code, language)
        nesting == IF nesting_depth > 4 THEN 20
                   ELSE IF nesting_depth > 3 THEN 10
                   ELSE IF nesting_depth > 2 THEN 5 ELSE 0
        magic == magic_penalty(SumSeq([i \in 1 .. Len(lines) |-> lines[i].numbers]))
        beauty == Points(100 - long - nesting - magic)
                  + descriptive_reward(code, language)
    IN Max(0, Min(Points(100), beauty))

\* the sub-scores of one call of score
breakdown(fix_code, original_code, language) ==
    [complexity |-> score_complexity(fix_code, language),
     dependencies |-> score_dependencies(fix_code, original_code, language),
     loc_delta |-> score_loc_delta(fix_code, original_code),
     test_coverage |-> score_test_coverage(fix_code, language),
     beauty |-> score_beauty(fix_code, language)]

\* a score that returns the sub-scores of the call before it when there is
\* one
score_stale(ws, fix_code, original_code, ctx) ==
    LET scores == IF out.op = "score" /\ out.result.outcome = "returned"
                  THEN out.result.breakdown
                  ELSE breakdown(fix_code, original_code, language_of(ctx))
        total_score == SumValues([c \in DOMAIN ws |-> scores[c] * ws[c]],
                                 DOMAIN ws)
    IN IF DOMAIN ws \subseteq DOMAIN scores
       THEN [outcome |-> "returned", total |-> total_score,
             breakdown |-> scores, weights |-> ws,
             passed |-> total_score >= AcceptanceThreshold]
       ELSE [outcome |-> "KeyError"]

\* FixScorer.score with self.weights = ws: scores[criterion] raises KeyError
\* for a weight that names no criterion
score(ws, fix_code, original_code, ctx) ==
    LET scores == breakdown(fix_code, original_code, language_of(ctx))
        total_score == SumValues([c \in DOMAIN ws |-> scores[c] * ws[c]],
                                 DOMAIN ws)
    IN IF DOMAIN ws \subseteq DOMAIN scores
       THEN [outcome |-> "returned", total |-> total_score,
             breakdown |-> scores, weights |-> ws,
             passed |-> total_score >= AcceptanceThreshold]
       ELSE [outcome |-> "KeyError"]

\* scorer.score(fix_code, original_code, context); the caller may keep the
\* result to compare it with a later one
Score(fix_code, original_code, ctx, keep) ==
    /\ scorer.built
    /\ score_calls < MaxCalls
    /\ score_calls' = score_calls + 1
    /\ out' = [op |-> "score", call |-> score_calls', fix_code |-> fix_code,
               original_code |-> original_code, context |-> ctx,
               weights |-> scorer.weights,
               result |-> score(scorer.weights, fix_code, original_code, ctx)]
    /\ saved' = IF keep THEN out' ELSE saved
    /\ UNCHANGED scorer
    /\ UNCHANGED <<smVars, current, councilVars, orchVars, wtVars>>

(***************************************************************************)
(* The texts the scorer is called with.                                    *)
(***************************************************************************)
\* the original_code of the example of scorer.py
ExampleOriginal ==
    Code(<<Line(0, "", 0), Line(20, "def", 0), Line(13, "if", 1),
           Line(18, "if", 1), Line(26, "if", 2), Line(27, "other", 0),
           Line(16, "other", 0)>>,
         <<4>>, {})

\* the fix_code of the example of scorer.py
ExampleFix ==
    Code(<<Line(0, "", 0), Line(21, "def", 0), Line(36, "other", 4)>>,
         <<2>>, {})

\* the text ""
EmptyCode == Code(<<>>, <<>>, {})

\* a text of one plain line
PlainCode == Code(<<Line(10, "other", 0)>>, <<>>, {})

\* a line `if (...) {`
OpenBlock == [Line(20, "if", 0) EXCEPT !.brackets = <<1, -1, 1>>]

\* a text of very_long lines of 101 characters, long lines of 81, depth
\* nested blocks and a last line with the given numeric literals and
\* assigned names
StyledCode(very_long, long, depth, numbers, assigns, descriptive) ==
    Code([i \in 1 .. very_long |-> Line(101, "other", 0)]
         \o [i \in 1 .. long |-> Line(81, "other", 0)]
         \o [i \in 1 .. depth |-> OpenBlock]
         \o <<[Line(30, "other", numbers) EXCEPT !.assigns = assigns,
                                                !.descriptive = descriptive]>>,
         <<1>>, {})

\* the texts whose style is scored: the names assigned are none, two plain
\* ones, one of two descriptive, or two descriptive ones
StyledCodes ==
    {StyledCode(very_long, long, depth, numbers, names[1], names[2]) :
        very_long \in {0, 1, MaxLongLines}, long \in {0, 1}, depth \in 0 .. 5,
        numbers \in {0, 3, 4, 5, 6},
        names \in {<<0, 0>>, <<2, 0>>, <<2, 1>>, <<2, 2>>}}

\* import names without a heavy library in them
LightImports == [i \in 1 .. MaxImports |-> <<"lib", ToString(i)>>]

\* import names with heavy libraries in them
HeavyImports ==
    {<<"NumPy">>, <<"numpy", "_", "torch">>, <<"windows", ".", "h">>}

\* the imports of the texts whose dependencies are scored
ImportSets ==
    {Range(SubSeq(LightImports, 1, k)) \cup heavy :
        k \in 0 .. MaxImports, heavy \in SUBSET HeavyImports}

\* a text with the given imports
ImportingCode(imports) == Code(<<Line(10, "other", 0)>>, <<>>, imports)

(***************************************************************************)
(* TDHEngine, which owns a FixScorer.                                      *)
(***************************************************************************)
\* the methods of FixScorer
FixScorerMethods ==
    {"__init__", "score", "_score_complexity", "_score_dependencies",
     "_score_loc_delta", "_score_test_coverage", "_score_beauty",
     "_calculate_nesting_depth", "_extract_python_imports",
     "_extract_c_includes", "_extract_imports_generic"}

\* an entry of the list _generate_fix_proposals returns
Proposal(provider, fixed_code, original_code) ==
    [provider |-> provider, proposal |-> [fixed_code |-> fixed_code],
     original_code |-> original_code]

\* the fixes proposed for the example of scorer.py
ProposedFixes ==
    {ExampleFix, PlainCode, EmptyCode, StyledCode(1, 1, 3, 4, 0, 0)}

\* the lists of proposals the engine selects from
RECURSIVE ProposalLists(_)
ProposalLists(n) ==
    IF n = 0 THEN {<<>>}
    ELSE LET shorter == ProposalLists(n - 1)
         IN shorter \cup
            {Append(ps, Proposal(Len(ps) + 1, fixed_code, ExampleOriginal)) :
                ps \in {x \in shorter : Len(x) = n - 1},
                fixed_code \in ProposedFixes}

\* _select_best_fix: None for no proposal; otherwise the loop calls
\* self.scorer.score_fix for the first proposal and reads 'total_score' in
\* what it returns, where FixScorer has the method score, whose result has
\* the key 'total'
select_best_fix(proposals) ==
    IF proposals = <<>> THEN [outcome |-> "returned", value |-> None]
    ELSE [outcome |-> IF "score_fix" \in FixScorerMethods THEN "KeyError"
                      ELSE "AttributeError",
          value |-> None]

\* await engine._select_best_fix(vulnerability, proposals)
SelectBestFix(proposals) ==
    /\ scorer.built
    /\ out' = [op |-> "select", proposals |-> proposals,
               result |-> select_best_fix(proposals)]
    /\ UNCHANGED <<scorer, saved, score_calls>>
    /\ UNCHANGED <<smVars, current, councilVars, orchVars, wtVars>>

\* TDHEngine.__init__ with config['scoring_weights'] = w, when FixScorer
\* accepts the weights
NewEngine(w) ==
    /\ ~weights_rejected(weights_or_default(w))
    /\ scorer = [built |-> TRUE, weights |-> weights_or_default(w)]
    /\ out = [op |-> "init", weights |-> w, outcome |-> "returned"]
    /\ saved = [op |-> "none"]
    /\ score_calls = 0

\* no scorer has been constructed
InitScorer ==
    /\ scorer = [built |-> FALSE, weights |-> EmptyDict]
    /\ out = [op |-> "none"]
    /\ saved = [op |-> "none"]
    /\ score_calls = 0

(***************************************************************************)
(* SpecSM: one state machine, built with or without a council, driven by a *)
(* caller that awaits execute_workflow, possibly more than once.           *)
(***************************************************************************)
InitSM ==
    /\ \E c \in BOOLEAN : InitMachines({1}, c)
    /\ current = NoTask
    /\ InitScorer
    /\ InitCouncil
    /\ InitOrch
    /\ InitWorktrees

NextSM ==
    \/ \E a \in Agents, v \in Vulns : CallExecuteWorkflow(a, v)
    \/ \E a \in Agents : WorkflowStep(a, Replies)

SpecSM == InitSM /\ [][NextSM]_vars

(***************************************************************************)
(* SpecAssign: the base council fans one vulnerability out to its agents   *)
(* with assign_vulnerability.                                              *)
(***************************************************************************)
InitAssign ==
    /\ InitMachines({}, FALSE)
    /\ current = NoTask
    /\ InitScorer
    /\ InitCouncil
    /\ InitOrch
    /\ InitWorktrees

NextAssign ==
    \/ \E avail \in SUBSET Agents : InitializeCouncil(avail)
    \/ AssignVulnerabilityRaises
    \/ AssignVulnerability
    \/ \E a \in Agents, f \in FixFiles : GenerateFixReturns(a, f)
    \/ \E a \in Agents : GenerateFixRaises(a)
    \/ GatherFixesCompletes
    \/ FixDeadlineExpires

SpecAssign == InitAssign /\ [][NextAssign]_vars

(***************************************************************************)
(* SpecCouncil: a council is built from a configuration in which some of   *)
(* the agents have an API key, and probes its agents.                      *)
(***************************************************************************)
InitCouncilProbe ==
    /\ InitMachines({}, FALSE)
    /\ current = NoTask
    /\ InitScorer
    /\ \E keys \in SUBSET Agents : InitCouncilWith(keys)
    /\ InitOrch
    /\ InitWorktrees

NextCouncil ==
    \E probe_results \in [Agents -> ProbeResults] :
        InitializeCouncil(available(probe_results))

SpecCouncil == InitCouncilProbe /\ [][NextCouncil]_vars

(***************************************************************************)
(* SpecOrch: the enhanced council builds its machines and orchestrates one *)
(* vulnerability with orchestrate_vulnerability_fix.                       *)
(***************************************************************************)
\* the replies the agents give during an orchestration: one that parses and
\* one that does not
OrchReplies ==
    {[kind |-> "obj", len |-> RawLimit], [kind |-> "bad", len |-> RawLimit + 1]}

NextOrch ==
    \/ \E avail \in SUBSET Agents : InitializeWithStateMachines(avail)
    \/ OrchestrateRaises
    \/ \E v \in Vulns : OrchestrateVulnerabilityFix(v)
    \/ PrepareWorkflow
    \/ PrepareWorkflowFails
    \/ \E a \in Agents : WorkflowStep(a, OrchReplies)
    \/ GatherCompletes
    \/ \E c, p, r \in Outcomes : ProcessResult(c, p, r)
    \/ GenerateReport

SpecOrch == InitAssign /\ [][NextOrch]_vars

(***************************************************************************)
(* SpecOrchFix: SpecOrch with a fix-design stage that stores a candidate   *)
(* fix, as the specification describes the stage.                          *)
(***************************************************************************)
NextOrchFix ==
    \/ \E avail \in SUBSET Agents : InitializeWithStateMachines(avail)
    \/ OrchestrateRaises
    \/ \E v \in Vulns : OrchestrateVulnerabilityFix(v)
    \/ PrepareWorkflow
    \/ PrepareWorkflowFails
    \/ \E a \in Agents :
          \/ ExecuteWorkflow(a)
          \/ EnterAnalyzing(a)
          \/ PrepareContextReturns(a)
          \/ PrepareContextRaises(a)
          \/ GenerateResponseRaises(a)
          \/ GenerateResponseHangs(a)
          \/ \E r \in OrchReplies : GenerateResponseReturns(a, r)
          \/ EnterTestDesigning(a)
          \/ \E f \in FixFiles : FixDesigningStores(a, f)
          \/ EnterDocumenting(a)
          \/ EnterWaitingCouncil(a)
          \/ EnterCouncilDiscussing(a)
          \/ EnterFinished(a)
          \/ HandleException(a)
          \/ CompileResults(a)
    \/ GatherCompletes
    \/ \E c, p, r \in Outcomes : ProcessResult(c, p, r)
    \/ GenerateReport

SpecOrchFix == InitAssign /\ [][NextOrchFix]_vars

(***************************************************************************)
(* SpecShared: the council orchestrates different vulnerabilities, one     *)
(* after the other or at the same time.  Each orchestration starts one     *)
(* execute_workflow task on the machine the council built for the agent.   *)
(***************************************************************************)
\* the orchestration of vulnerability v creates its workflow task on the
\* machine m of self.state_machines
CreateWorkflowTask(v, m) ==
    /\ current = NoTask
    /\ m \in machines
    /\ pc[v] = "idle"
    /\ pc' = [pc EXCEPT ![v] = "scheduled"]
    /\ arg' = [arg EXCEPT ![v] = v]
    /\ self_of' = [self_of EXCEPT ![v] = m]
    /\ calls' = [calls EXCEPT ![v] = @ + 1]
    /\ UNCHANGED <<machines, council, state, state_history, context, exc,
                   response, result, run_start, llm_calls, current>>
    /\ UNCHANGED <<councilVars, orchVars, wtVars, scVars>>

InitShared ==
    /\ InitMachines({1}, TRUE)
    /\ current = NoTask
    /\ InitScorer
    /\ InitCouncil
    /\ InitOrch
    /\ InitWorktrees

NextShared ==
    \/ \E v \in Vulns, m \in Agents : CreateWorkflowTask(v, m)
    \/ \E a \in Agents : WorkflowStep(a, OrchReplies)

SpecShared == InitShared /\ [][NextShared]_vars

(***************************************************************************)
(* SpecWorktree: the worktree manager on a canonical clone, called for     *)
(* several agents and issues.                                              *)
(***************************************************************************)
NextWorktree ==
    \E llm_name \in AgentNames, issue_id \in IssueIds, d \in Dirs,
       fails \in GitSteps \cup {"none"} :
        CreateWorktreeForLlm(llm_name, issue_id, d, fails)

SpecWorktree == InitAssign /\ [][NextWorktree]_vars

(***************************************************************************)
(* SpecContext: the ctx of a finding is prepared from a worktree whose *)
(* file f holds some text.                                                 *)
(***************************************************************************)
InitContext ==
    /\ InitMachines({}, FALSE)
    /\ current = NoTask
    /\ InitScorer
    /\ InitCouncil
    /\ InitOrch
    /\ \E text \in Texts :
        LET b == branch_name(<<"g">>, <<"a", "b">>) IN
        /\ worktrees = [x \in {b} |-> worktree_info(1, <<"g">>, <<"a", "b">>)]
        /\ branches = {b}
        /\ git_worktrees = [x \in {1} |-> b]
        /\ disk = {1}
        /\ ret = [op |-> "none"]
        /\ created = {[llm_name |-> <<"g">>, issue_id |-> <<"a", "b">>,
                       dir |-> 1, branch |-> b]}
        /\ fs = [x \in {WorktreePath(1) \o <<"f">>} |-> text]
        /\ heads = [x \in {b} |-> [n |-> 0, tree |-> BaseTree]]
        /\ remote = <<>>
        /\ github_token = TRUE
        /\ base = "clone"
        /\ origin_url = add_auth_to_url(TRUE)

NextContext ==
    \E b \in Branches, file_path \in RelFiles, line_num \in LineNums :
        PrepareLlmContext(b, file_path, line_num)

SpecContext == InitContext /\ [][NextContext]_vars

(***************************************************************************)
(* SpecPublish: a worktree is made for an agent, its branch pushed and the *)
(* worktree cleaned up, any number of times.                               *)
(***************************************************************************)
InitPublish ==
    /\ InitMachines({}, FALSE)
    /\ current = NoTask
    /\ InitScorer
    /\ InitCouncil
    /\ InitOrch
    /\ \E token \in BOOLEAN : NewManager(token)

NextPublish ==
    \/ \E d \in Dirs :
          CreateWorktreeForLlm(<<"g">>, <<"a", "b">>, d, "none")
    \/ \E b \in Branches, fails \in GitFailures \cup {"none"} :
          PushToGithub(b, fails)
    \/ \E b \in Branches, keep_arg \in KeepArgs, fails \in SUBSET CleanupSteps :
          CleanupWorktree(b, keep_arg, fails)
    \/ \E keep_arg \in KeepArgs, fails \in SUBSET CleanupSteps :
          CleanupAll(keep_arg, fails)
    \/ \E d \in Dirs : DirectoryDeleted(d)

SpecPublish == InitPublish /\ [][NextPublish]_vars

(***************************************************************************)
(* SpecSetup: setup_main_repo is run, any number of times, on a base       *)
(* directory that is missing, holds something else or holds a clone, and   *)
(* worktrees are made in between.                                          *)
(***************************************************************************)
InitSetup ==
    /\ InitMachines({}, FALSE)
    /\ current = NoTask
    /\ InitScorer
    /\ InitCouncil
    /\ InitOrch
    /\ worktrees = <<>>
    /\ branches = {}
    /\ git_worktrees = <<>>
    /\ disk = {}
    /\ ret = [op |-> "none"]
    /\ created = {}
    /\ fs = <<>>
    /\ heads = <<>>
    /\ remote = <<>>
    /\ github_token \in BOOLEAN
    /\ \/ base \in {"absent", "empty"} /\ origin_url = <<>>
       \/ base = "clone" /\ origin_url \in {RepoUrl, OtherUrl, <<>>}

NextSetup ==
    \/ \E config_ok, fetch_ok \in BOOLEAN, clone_ok \in [CloneAttempts -> BOOLEAN] :
          SetupMainRepo(config_ok, fetch_ok, clone_ok)
    \/ \E d \in Dirs :
          CreateWorktreeForLlm(<<"g">>, <<"a", "b">>, d, "none")

SpecSetup == InitSetup /\ [][NextSetup]_vars

(***************************************************************************)
(* SpecApply: the fixes of one agent are applied to the worktree made for  *)
(* it.                                                                     *)
(***************************************************************************)
NextApply ==
    \/ \E d \in Dirs :
          CreateWorktreeForLlm(<<"g">>, <<"a", "b">>, d, "none")
    \/ \E b \in Branches, fixed_files \in FixedFiles,
          fails \in ApplySteps \cup {"none"} :
          ApplyLlmFix(b, fixed_files, fails)

SpecApply == InitAssign /\ [][NextApply]_vars

(***************************************************************************)
(* SpecRetry: the _generate_fix_with_retry tasks of one fan-out, for a     *)
(* council of one or of two agents; every invocation of an agent that has  *)
(* started returns or raises.                                              *)
(***************************************************************************)
RetryKeys == {{1}, {1, 2}}

InitRetry ==
    /\ InitMachines({}, FALSE)
    /\ current = NoTask
    /\ InitScorer
    /\ \E keys \in RetryKeys : InitCouncilWith(keys)
    /\ InitOrch
    /\ InitWorktrees

\* one invocation of llm.generate_fix by the task of agent a ends
GenerateFixEnds(a) ==
    \/ \E f \in FixFiles : GenerateFixReturns(a, f)
    \/ GenerateFixRaises(a)

NextRetry ==
    \/ AssignVulnerability
    \/ \E a \in Agents, f \in FixFiles : GenerateFixReturns(a, f)
    \/ \E a \in Agents : GenerateFixRaises(a)
    \/ GatherFixesCompletes
    \/ FixDeadlineExpires

SpecRetry ==
    /\ InitRetry
    /\ [][NextRetry]_vars
    /\ \A a \in Agents : WF_vars(GenerateFixEnds(a))

(***************************************************************************)
(* SpecScorer: scorers are constructed with every kind of weights, score a *)
(* few texts several times over.                                           *)
(***************************************************************************)
ScorerInputs ==
    {<<ExampleFix, ExampleOriginal, "python">>,
     <<ExampleOriginal, ExampleFix, "go">>,
     <<EmptyCode, EmptyCode, "None">>,
     <<PlainCode, PlainCode, "None">>,
     <<PlainCode, PlainCode, "python">>,
     <<StyledCode(MaxLongLines, 1, 5, 6, 0, 0), PlainCode, "c">>,
     <<[ExampleOriginal EXCEPT !.parses = FALSE], PlainCode, "python">>,
     <<ImportingCode(Range(LightImports)), PlainCode, "python">>}

InitScorers ==
    /\ InitMachines({}, FALSE)
    /\ current = NoTask
    /\ InitCouncil
    /\ InitOrch
    /\ InitWorktrees
    /\ InitScorer

NextScorer ==
    \/ \E w \in WeightArgs : NewFixScorer(w)
    \/ \E input \in ScorerInputs, keep \in BOOLEAN :
          Score(input[1], input[2], input[3], keep)

SpecScorer == InitScorers /\ [][NextScorer]_vars

(***************************************************************************)
(* SpecSelect: an engine constructed with any accepted scoring weights     *)
(* selects among the proposals made for the example of scorer.py.          *)
(***************************************************************************)
InitSelect ==
    /\ InitMachines({}, FALSE)
    /\ current = NoTask
    /\ InitCouncil
    /\ InitOrch
    /\ InitWorktrees
    /\ \E w \in WeightArgs : NewEngine(w)

NextSelect ==
    \E proposals \in ProposalLists(MaxProposals) : SelectBestFix(proposals)

SpecSelect == InitSelect /\ [][NextSelect]_vars

(***************************************************************************)
(* SpecSubscores: the scorer constructed with the default weights scores   *)
(* the example of scorer.py and texts that differ in style or in imports.  *)
(***************************************************************************)
InitSubscores ==
    /\ InitMachines({}, FALSE)
    /\ current = NoTask
    /\ InitCouncil
    /\ InitOrch
    /\ InitWorktrees
    /\ NewEngine([given |-> FALSE, dict |-> EmptyDict])

\* the first call of score on the scorer
ScoreFirst(fix_code, original_code, ctx) ==
    /\ score_calls = 0
    /\ Score(fix_code, original_code, ctx, FALSE)

NextSubscores ==
    \/ ScoreFirst(ExampleFix, ExampleOriginal, "python")
    \/ \E code \in StyledCodes, ctx \in {"None", "c"} :
          ScoreFirst(code, PlainCode, ctx)
    \/ \E imports \in ImportSets,
          original \in {{}, {LightImports[1]}, {<<"NumPy">>}},
          ctx \in {"python", "c", "go"} :
          ScoreFirst(ImportingCode(imports), ImportingCode(original), ctx)

SpecSubscores == InitSubscores /\ [][NextSubscores]_vars

(***************************************************************************)
(* Properties of the state machine.                                        *)
(***************************************************************************)
IsPrefix(s, t) == Len(s) <= Len(t) /\ \A i \in 1 .. Len(s) : s[i] = t[i]

\* the order execute_workflow enters the stages in
StageOrder(withCouncil) ==
    <<"ANALYZING", "TEST_DESIGNING", "FIX_DESIGNING", "DOCUMENTING">>
    \o (IF withCouncil THEN <<"WAITING_COUNCIL", "COUNCIL_DISCUSSING">> ELSE <<>>)
    \o <<"FINISHED">>

\* the states the call in progress (or the last call) has entered
Entered(a) ==
    [i \in 1 .. (Len(state_history[a]) - run_start[a]) |->
        state_history[a][run_start[a] + i].to]

\* the artifact of stage j in a compiled result
Artifact(res, j) ==
    CASE j = 1 -> res.analysis
      [] j = 2 -> res.test_design
      [] j = 3 -> res.fix
      [] OTHER -> res.documentation

NonConforming(r) == r.kind \in {"bad", "str_bad"}

\* C1: in every run of execute_workflow the states entered are a prefix of
\* ANALYZING, TEST_DESIGNING, FIX_DESIGNING, DOCUMENTING, [WAITING_COUNCIL,
\* COUNCIL_DISCUSSING exactly when a council is configured], FINISHED,
\* optionally followed by one transition to ERROR; a fresh machine starts
\* from IDLE, every transition leaves the state the previous one entered,
\* and the machine's state is the last state entered.
C1_StageOrder ==
    \A a \in machines :
        LET h == state_history[a]
            e == Entered(a)
            o == StageOrder(council[a])
        IN /\ \/ IsPrefix(e, o)
              \/ /\ e # <<>>
                 /\ e[Len(e)] = "ERROR"
                 /\ IsPrefix(SubSeq(e, 1, Len(e) - 1), o)
           /\ \A i \in 1 .. Len(h) :
                 h[i].from = (IF i = 1 THEN "IDLE" ELSE h[i - 1].to)
           /\ state[a] = (IF h = <<>> THEN "IDLE" ELSE h[Len(h)].to)

\* a machine with a council has gone through all seven transitions
C1_Witness ==
    \E a \in machines :
        /\ council[a]
        /\ pc[a] = "returned"
        /\ calls[a] = 1
        /\ Entered(a) = StageOrder(TRUE)

\* C2: when a workflow fails at stage k, the compiled result has a non-null
\* artifact for every stage before k, a null artifact for stage k and every
\* later stage, the final state is ERROR and no later stage was entered.
C2_FailAtStage ==
    \A a \in machines :
        (pc[a] = "returned" /\ exc[a] # "none") =>
            LET e == Entered(a)
                k == Len(e) - 1
            IN /\ state[a] = "ERROR"
               /\ k \in 1 .. 4
               /\ e = SubSeq(StageOrder(council[a]), 1, k) \o <<"ERROR">>
               /\ \A j \in 1 .. 4 :
                     (Artifact(result[a], j) = None) <=> (j >= k)

\* a workflow failed in its analysis stage and returned
C2_Witness ==
    \E a \in machines :
        /\ pc[a] = "returned"
        /\ exc[a] = "AgentInvocationError"
        /\ state[a] = "ERROR"
        /\ Entered(a) = <<"ANALYZING", "ERROR">>

\* C3: once a machine has entered FINISHED or ERROR, no later operation
\* changes its state or appends to its transition history.
C3_Terminal ==
    [][\A a \in Agents :
          state[a] \in {"FINISHED", "ERROR"} =>
              /\ state'[a] = state[a]
              /\ state_history'[a] = state_history[a]]_vars

\* C4: execute_workflow never raises to its caller; a call that has
\* returned ended in FINISHED or ERROR, its result carries the artifacts and
\* errors of the context, and the error list is non-empty exactly when the
\* final state is ERROR.
C4_NeverRaises ==
    \A a \in machines :
        /\ pc[a] # "raised"
        /\ pc[a] = "returned" =>
              /\ state[a] \in {"FINISHED", "ERROR"}
              /\ result[a].analysis = context[a].analysis_result
              /\ result[a].test_design = context[a].test_design
              /\ result[a].fix = context[a].fix_code
              /\ result[a].documentation = context[a].documentation
              /\ result[a].errors = context[a].errors
              /\ (result[a].errors # <<>>) <=> (state[a] = "ERROR")
              /\ (exc[a] # "none") <=> (state[a] = "ERROR")

\* a call whose agent invocation raised has returned a result with errors
C4_Witness ==
    \E a \in machines :
        /\ pc[a] = "returned"
        /\ exc[a] # "none"
        /\ Len(result[a].errors) = 2

\* C5: when a workflow reaches FINISHED, the analysis, test-design, fix and
\* documentation artifacts of the compiled result are all non-null, and the
\* result exposes the final state and the artifacts.
C5_AllArtifacts ==
    \A a \in machines :
        (pc[a] = "returned" /\ state[a] = "FINISHED") =>
            /\ \A j \in 1 .. 4 : Artifact(result[a], j) # None
            /\ {"state", "artifacts"} \subseteq DOMAIN result[a]

\* C6 as stated: a non-conforming reply in the analysis stage never drives
\* the workflow to ERROR; the stage stores a degraded record that keeps the
\* raw reply, and the workflow proceeds to TEST_DESIGNING.
C6_KeepsRawReply ==
    \A a \in machines :
        (response[a] # None /\ NonConforming(response[a])) =>
            /\ state[a] # "ERROR"
            /\ context[a].analysis_result.tag = "degraded"
            /\ context[a].analysis_result.raw_response = response[a]
            /\ \/ pc[a] = "to_test_designing"
               \/ \E i \in 1 .. Len(Entered(a)) : Entered(a)[i] = "TEST_DESIGNING"

\* C6 as amended: the degraded record keeps the first RawLimit characters of
\* the raw reply.
C6_KeepsRawPrefix ==
    \A a \in machines :
        (response[a] # None /\ NonConforming(response[a])) =>
            /\ state[a] # "ERROR"
            /\ exc[a] = "none"
            /\ context[a].analysis_result.tag = "degraded"
            /\ context[a].analysis_result.raw_response
                   = Slice(response[a], RawLimit)
            /\ context[a].analysis_result.raw_response.len
                   = Min(response[a].len, RawLimit)
            /\ \/ pc[a] = "to_test_designing"
               \/ \E i \in 1 .. Len(Entered(a)) : Entered(a)[i] = "TEST_DESIGNING"

\* a double-encoded, unparsable reply longer than RawLimit was degraded and
\* the workflow is in TEST_DESIGNING
C6_Witness ==
    \E a \in machines :
        /\ response[a] # None
        /\ response[a].kind = "str_bad"
        /\ response[a].len > RawLimit
        /\ state[a] = "TEST_DESIGNING"

\* C7: a stage fails, and the workflow goes to ERROR, only after every one
\* of the MaxRetries + 1 attempts to invoke the agent has failed.
C7_RetriesBeforeFailure ==
    \A a \in machines :
        (exc[a] = "AgentInvocationError" /\ state[a] = "ERROR") =>
            llm_calls[a] = MaxRetries + 1

(***************************************************************************)
(* Properties of the councils.                                             *)
(***************************************************************************)
\* C8: when the shared deadline of a fan-out expires, every agent whose
\* task had already completed keeps its own recorded outcome (success with
\* its files, or its own error); only the agents still unfinished are
\* recorded as timeout failures.
C8_CompletedKeepOutcome ==
    (assign_pc = "done" /\ timed_out) =>
        \A a \in Range(selected) :
            /\ fix_task[a].status = "ok" =>
                  /\ final_results[a].success
                  /\ final_results[a].fixed_files = fix_task[a].files
            /\ fix_task[a].status = "error" =>
                  /\ ~final_results[a].success
                  /\ final_results[a].error = "AgentInvocationError"
            /\ fix_task[a].status = "cancelled" =>
                  /\ ~final_results[a].success
                  /\ final_results[a].error = "Timeout"

\* C9: orchestrate_vulnerability_fix always terminates with a report: an
\* orchestration that has started is never left without a step to take
\* before it has returned its report.
C9_AlwaysReports ==
    orch_pc \in {"preparing", "gathering", "processing", "reporting"} =>
        ENABLED NextOrch

\* C10: the report has exactly one entry for every agent retained by the
\* initialization, each marked success or failed, and successful + failed
\* is the number of agents.
C10_EveryAgentReported ==
    orch_pc = "done" =>
        /\ DOMAIN report.solutions = Range(llms)
        /\ \A a \in Range(llms) :
              report.solutions[a].status \in {"success", "failed"}
        /\ report.summary.successful + report.summary.failed = Len(llms)
        /\ report.summary.total_llms = Len(llms)

C12_RecommendationBySuccesses ==
    orch_pc = "done" =>
        LET s == Cardinality({a \in DOMAIN report.solutions :
                                 report.solutions[a].status = "success"})
            analysis == report.comparative_analysis
        IN /\ report.summary.successful = s
           /\ report.recommendations =
                 (IF s = 1 THEN "review_single"
                  ELSE IF s > 1 THEN "compare_all" ELSE "manual_review")
           /\ analysis.recommended_approach =
                 (IF s = 1 THEN "review_single"
                  ELSE IF s > 1 THEN "review_all" ELSE "manual_review")
           /\ analysis.multiple_solutions = (s > 1)
           /\ ("all_failed" \in DOMAIN analysis) = (s = 0)
           /\ ("single_solution_by" \in DOMAIN analysis) = (s = 1)
           /\ s = 1 => report.solutions[analysis.single_solution_by].status
                           = "success"

\* a report over two successes and one failure
C12_Witness ==
    /\ orch_pc = "done"
    /\ report.summary.successful = 2
    /\ report.summary.failed = 1
    /\ report.recommendations = "compare_all"

CarriesFix(res) == res.fix # None /\ res.fix.fixed_files = "nonempty"

C16_IndependentWorkflows ==
    \A w \in Vulns :
        /\ pc[w] \notin {"idle", "scheduled", "returned"} =>
              context[self_of[w]].vulnerability = arg[w]
        /\ pc[w] = "returned" =>
              /\ result[w].vulnerability = arg[w]
              /\ result[w].analysis =
                    (IF response[w] = None THEN None
                     ELSE ParseAnalysis(response[w]))
              /\ result[w].errors =
                    (IF exc[w] = "none" THEN <<>>
                     ELSE <<[where |-> "analisis", exc |-> exc[w]],
                            [where |-> "workflow", exc |-> exc[w]]>>)

(***************************************************************************)
(* Properties of the worktree manager.                                     *)
(***************************************************************************)
\* C17: two distinct agents working on the same issue never share a
\* worktree directory or a branch name: the calls of create_worktree_for_llm
\* for agent names a # b and one issue id returned different directories and
\* different branches, and the registry holds a separate entry for each.
C17_AgentsNeverShare ==
    /\ \A a, b \in AgentNames, i \in IssueIds :
          a # b => branch_name(a, i) # branch_name(b, i)
    /\ \A x, y \in created :
          (x.llm_name # y.llm_name /\ x.issue_id = y.issue_id) =>
              /\ x.dir # y.dir
              /\ x.branch # y.branch
              /\ {x.branch, y.branch} \subseteq DOMAIN worktrees
              /\ worktrees[x.branch].dir = x.dir
              /\ worktrees[x.branch].llm_name = x.llm_name
              /\ worktrees[y.branch].dir = y.dir
              /\ worktrees[y.branch].llm_name = y.llm_name

\* two agents hold a worktree for the same issue
C17_Witness ==
    \E x, y \in created :
        /\ x.llm_name # y.llm_name
        /\ x.issue_id = y.issue_id
        /\ {x.dir, y.dir} \subseteq disk

\* C18: branch names are unique per (agent, issue): the branch that
\* create_worktree_for_llm derives for a pair is never the branch of a
\* different pair, so the registry never binds a branch to another pair
\* than the one the call was made for.
C18_BranchPerPair ==
    (ret.op = "create" /\ ret.branch \in DOMAIN worktrees) =>
        /\ worktrees[ret.branch].llm_name = ret.llm_name
        /\ worktrees[ret.branch].issue_id = ret.issue_id

\* C19: a second create_worktree_for_llm for an (agent, issue) that holds a
\* worktree, in which no git command fails for a reason of its own, reuses
\* the branch and returns normally, and leaves no worktree outside the
\* registry.
C19_SecondCallReuses ==
    [][\A llm_name \in AgentNames, issue_id \in IssueIds, d \in Dirs :
          LET b == branch_name(llm_name, issue_id) IN
          (/\ b \in DOMAIN worktrees
           /\ worktrees[b].llm_name = llm_name
           /\ worktrees[b].issue_id = issue_id
           /\ CreateWorktreeForLlm(llm_name, issue_id, d, "none")) =>
              /\ ret'.outcome = "ok"
              /\ \A w \in DOMAIN git_worktrees' :
                    \E x \in DOMAIN worktrees' : worktrees'[x].dir = w]_vars

\* C20: when a git command of create_worktree_for_llm fails, the call
\* fails, the directory it made is removed and the registry is unchanged.
C20_FailureLeavesNoTrace ==
    [][(ret'.op = "create" /\ ret'.failed # "none") =>
          /\ ret'.outcome = "raised"
          /\ ret'.dir \notin disk'
          /\ worktrees' = worktrees
          /\ created' = created]_vars

\* a call failed after git had added the worktree: git still lists the
\* directory, which is gone, and the registry has no entry for the branch
C20_Witness ==
    /\ ret.op = "create"
    /\ ret.outcome = "raised"
    /\ ret.failed = "set_url"
    /\ ret.dir \in DOMAIN git_worktrees
    /\ ret.dir \notin disk
    /\ ret.branch \notin DOMAIN worktrees

(***************************************************************************)
(* Properties of apply_llm_fix.                                            *)
(***************************************************************************)
\* the files handed in are all committed on the branch with that content
SameAsCommitted(files, b) ==
    \A k \in DOMAIN files :
        k \in DOMAIN heads[b].tree /\ heads[b].tree[k] = files[k]

C22_WritesInsideWorktree ==
    [][(ret'.op = "apply" /\ ret'.branch \in DOMAIN worktrees) =>
          \A x \in DOMAIN fs' :
              (x \notin DOMAIN fs \/ fs'[x] # fs[x]) =>
                  Under(x, WorktreePath(worktrees[ret'.branch].dir))]_vars

(***************************************************************************)
(* Properties of prepare_llm_context.                                      *)
(***************************************************************************)
\* C23: on a file of N lines with reported line L, 1 <= L <= N,
\* prepare_llm_context extracts exactly the lines max(1, L-5) .. min(N, L+5),
\* marks exactly the line L, and reports that range as line_numbers; with L
\* outside 1 .. N no line is marked.  (The empty string that follows a
\* final newline is not counted as a line.)
C23_ContextWindow ==
    (ret.op = "context" /\ ret.outcome = "ok") =>
        LET N == ret.text.n
            L == ret.line
            lo == Max(1, L - 5)
            hi == Min(N, L + 5)
            IsLine(e) == e.line # 0
            got == SelectSeq(ret.vulnerable_section, IsLine)
        IN IF 1 <= L /\ L <= N
           THEN /\ Len(got) = hi - lo + 1
                /\ \A j \in 1 .. Len(got) :
                      /\ got[j].line = lo + j - 1
                      /\ got[j].marked <=> (got[j].line = L)
                /\ ret.line_numbers[1] = lo
                /\ Min(ret.line_numbers[2], N) = hi
           ELSE \A j \in 1 .. Len(got) : ~got[j].marked

(***************************************************************************)
(* Properties of push_to_github and cleanup_worktree.                      *)
(***************************************************************************)
\* C24: push_to_github never raises on a failed push: when the remote
\* rejects the push or the git command fails or times out, it returns
\* (False, error text) and leaves the registry status of the branch
\* unchanged.
C24_FailedPushReturns ==
    [][(ret'.op = "push" /\ ret'.failure \in GitFailures) =>
          /\ ret'.outcome = "returned"
          /\ ~ret'.success
          /\ worktrees' = worktrees]_vars

\* the step is a call of cleanup_worktree or cleanup_all
CleanupCall == ret' # ret /\ ret'.op \in {"cleanup", "cleanup_all"}

\* C25: cleanup never raises: for a registered branch it returns normally
\* whatever steps fail (directory already deleted, git worktree remove,
\* branch deletion or remote deletion failing) and the branch is no longer
\* in the registry afterwards; for an unregistered branch it is a no-op.
C25_CleanupNeverRaises ==
    [][CleanupCall =>
          /\ ret'.outcome = "returned"
          /\ \A b \in ret'.branches : b \notin DOMAIN worktrees'
          /\ (ret'.branches \cap DOMAIN worktrees = {}) =>
                UNCHANGED <<worktrees, branches, heads, git_worktrees, disk,
                            fs, remote>>]_vars

\* a cleanup of a registered branch returned although the removal of the
\* worktree, of the branch and of the remote branch all failed
C25_Witness ==
    /\ ret.op = "cleanup"
    /\ ret.outcome = "returned"
    /\ ret.failed = CleanupSteps
    /\ ret.branches \subseteq branches
    /\ ret.branches \cap DOMAIN worktrees = {}
    /\ \E d \in DOMAIN git_worktrees :
          git_worktrees[d] \in ret.branches /\ d \notin disk

\* C26: cleanup called with its default arguments keeps the remote branch:
\* the remote branch is deleted only when the caller passes
\* keep_remote = False.
C26_DefaultKeepsRemote ==
    [][(CleanupCall /\ ret'.keep_remote # "false") => remote' = remote]_vars

BaseFiles(files) == [x \in {y \in DOMAIN files : Under(y, BaseDir)} |-> files[x]]

\* C29: the canonical clone is read-only after setup: no call of
\* create_worktree_for_llm, prepare_llm_context, apply_llm_fix,
\* push_to_github, cleanup_worktree or cleanup_all changes its branches, its
\* remote configuration or its working files.
C29_CloneReadOnly ==
    [][(/\ ret' # ret
        /\ ret'.op \in {"create", "context", "apply", "push", "cleanup",
                        "cleanup_all"}) =>
           /\ branches' = branches
           /\ origin_url' = origin_url
           /\ BaseFiles(fs') = BaseFiles(fs)]_vars

(***************************************************************************)
(* Properties of initialize_council.                                       *)
(***************************************************************************)
\* the agents that have an OpenRouterLLM that reported itself available, in
\* the configured order of preference
AvailableInOrder ==
    SelectSeq([i \in 1 .. NumAgents |-> i], LAMBDA a : is_available[a] = "true")

\* C30: after initialize_council the council holds zero or an odd number
\* of agents, every retained agent reported itself available, and the
\* retained agents are a prefix, in the configured order of preference, of
\* the available ones, at most the least preferred being dropped.
C30_OddPrefixOfAvailable ==
    council_pc = "initialized" =>
        /\ Len(llms) = 0 \/ Len(llms) % 2 = 1
        /\ \A a \in Range(llms) : is_available[a] = "true"
        /\ IsPrefix(llms, AvailableInOrder)
        /\ Len(AvailableInOrder) - Len(llms) \in {0, 1}

\* a probe failed, an even number of agents was left, and the least
\* preferred of them was dropped although it is available
C30_Witness ==
    /\ council_pc = "initialized"
    /\ \E a \in Agents : is_available[a] = "false"
    /\ Len(AvailableInOrder) = Len(llms) + 1
    /\ Len(llms) >= 1
    /\ AvailableInOrder[Len(AvailableInOrder)] \notin Range(llms)

(***************************************************************************)
(* Properties of _generate_fix_with_retry.                                 *)
(***************************************************************************)
\* C31: _generate_fix_with_retry invokes the agent at most MaxRetries + 1
\* times, makes no further invocation once one has succeeded and keeps the
\* files that invocation returned, raises only when MaxRetries + 1
\* invocations have failed, and does not run forever.
C31_BoundedRetry ==
    /\ [](\A a \in Agents :
            /\ fix_task[a].attempts <= MaxRetries + 1
            /\ fix_task[a].status = "error" =>
                  fix_task[a].attempts = MaxRetries + 1
            /\ fix_task[a].status = "ok" => fix_task[a].files \in FixFiles)
    /\ [][\A a \in Agents :
            /\ fix_task[a].status = "ok" => fix_task'[a] = fix_task[a]
            /\ (fix_task[a].status = "running" /\ fix_task'[a].status = "error")
                  => fix_task[a].attempts = MaxRetries]_vars
    /\ \A a \in Agents :
          (fix_task[a].status = "running") ~> (fix_task[a].status # "running")

\* one task succeeded at its last attempt after MaxRetries failures, and
\* another one raised after MaxRetries + 1 failures
C31_Witness ==
    /\ fix_task[1].status = "ok"
    /\ fix_task[1].attempts = MaxRetries + 1
    /\ fix_task[2].status = "error"
    /\ fix_task[2].attempts = MaxRetries + 1

C38_CreatesAbsentBranch ==
    [][(/\ ret' # ret
        /\ ret'.op = "create"
        /\ ret'.branch \notin branches
        /\ ret'.failed \notin {"fetch", "branch"})
          => ret'.branch \in branches']_vars

(***************************************************************************)
(* Properties of the FixScorer.                                            *)
(***************************************************************************)
\* C33: constructing a FixScorer with given weights fails exactly when the
\* weights do not sum to 1.0 within 0.001.
C33_RejectsExactlyBadSums ==
    (out.op = "init" /\ out.weights.given) =>
        ((out.outcome = "ValueError") <=>
            Abs(SumValues(out.weights.dict, DOMAIN out.weights.dict) - One)
                > Tolerance)

\* the call of score just made has the candidate, original, language and
\* weights of the call that was kept
SameCallAsSaved ==
    /\ out'.op = "score"
    /\ saved.op = "score"
    /\ out'.fix_code = saved.fix_code
    /\ out'.original_code = saved.original_code
    /\ language_of(out'.context) = language_of(saved.context)
    /\ out'.weights = saved.weights

C39_TotalWithinRange ==
    (out.op = "score" /\ out.result.outcome = "returned") =>
        /\ \A c \in DOMAIN out.result.breakdown :
              out.result.breakdown[c] \in 0 .. Points(100)
        /\ out.result.total >= 0
        /\ out.result.total <= Points(100) * One

\* the call of score just made is the example of scorer.py under the
\* default weights
ExampleScored ==
    /\ out.op = "score"
    /\ out.fix_code = ExampleFix
    /\ out.original_code = ExampleOriginal
    /\ language_of(out.context) = "python"
    /\ out.weights = DefaultWeights

\* C35 as stated: on the example the sub-scores are 100, 100, 100, 20 and
\* about 100 (within 5 points), the total is about 91 (within one point)
\* and the verdict is pass.
C35_ExampleTotalAbout91 ==
    ExampleScored =>
        /\ out.result.breakdown.complexity = Points(100)
        /\ out.result.breakdown.dependencies = Points(100)
        /\ out.result.breakdown.loc_delta = Points(100)
        /\ out.result.breakdown.test_coverage = Points(20)
        /\ out.result.breakdown.beauty \in Points(95) .. Points(100)
        /\ out.result.total \in (Points(90) * One) .. (Points(92) * One)
        /\ out.result.passed

\* C35, amended: on the example the sub-scores are 100, 100, 100, 20 and 95
\* (the candidate holds four numeric literals), the total is 79.25 and the
\* verdict is pass.
C35_ExampleTotal ==
    ExampleScored =>
        /\ out.result.breakdown =
              [complexity |-> Points(100), dependencies |-> Points(100),
               loc_delta |-> Points(100), test_coverage |-> Points(20),
               beauty |-> Points(95)]
        /\ out.result.total = 7925 * One
        /\ out.result.passed

\* the example has been scored
C35_Witness == ExampleScored /\ out.result.outcome = "returned"

\* the number of new imports of the call just made, and the heavy
\* libraries found in them
NewImportCount ==
    Cardinality(new_imports(out.fix_code, out.original_code))
HeavyCount ==
    heavy_count(new_imports(out.fix_code, out.original_code),
                language_of(out.context))

\* C36 as stated: the dependency sub-score is 100 for no new import, 80 for
\* one or two without a heavy library, otherwise 60 up to five, otherwise
\* 40 up to ten, otherwise 20.
C36_DependencyBands ==
    out.op = "score" =>
        out.result.breakdown.dependencies =
            (IF NewImportCount = 0 THEN Points(100)
             ELSE IF NewImportCount <= 2 /\ HeavyCount = 0 THEN Points(80)
             ELSE IF NewImportCount <= 5 THEN Points(60)
             ELSE IF NewImportCount <= 10 THEN Points(40)
             ELSE Points(20))

\* C36, amended: the dependency sub-score is 100 for no new import, 80 for
\* one or two and 60 for three to five when none holds a heavy library,
\* otherwise 40 up to ten new imports, otherwise 20.
C36_DependencyBandsNoHeavy ==
    out.op = "score" =>
        out.result.breakdown.dependencies =
            (CASE NewImportCount = 0 -> Points(100)
               [] NewImportCount \in 1 .. 2 /\ HeavyCount = 0 -> Points(80)
               [] NewImportCount \in 3 .. 5 /\ HeavyCount = 0 -> Points(60)
               [] NewImportCount \in 1 .. 5 /\ HeavyCount > 0 -> Points(40)
               [] NewImportCount \in 6 .. 10 -> Points(40)
               [] OTHER -> Points(20))

\* a single new import that holds a heavy library scored 40
C36_Witness ==
    /\ out.op = "score"
    /\ NewImportCount = 1
    /\ HeavyCount > 0
    /\ out.result.breakdown.dependencies = Points(40)

\* what the patterns of the style score find in the text scored last
StyleLines == split(out.fix_code)
VeryLongLines == {i \in 1 .. Len(StyleLines) : StyleLines[i].len > 100}
LongLines == {i \in 1 .. Len(StyleLines) : StyleLines[i].len \in 81 .. 100}
NestingDepth == calculate_nesting_depth(out.fix_code, language_of(out.context))
NumericLiterals ==
    SumSeq([i \in 1 .. Len(StyleLines) |-> StyleLines[i].numbers])
AssignedNames ==
    SumSeq([i \in 1 .. Len(StyleLines) |-> StyleLines[i].assigns])
DescriptiveNames ==
    SumSeq([i \in 1 .. Len(StyleLines) |-> StyleLines[i].descriptive])

\* the penalties for long lines and for nesting, in points
LineAndNestingPenalty ==
    5 * Cardinality(VeryLongLines) + 2 * Cardinality(LongLines)
    + (IF NestingDepth > 4 THEN 20 ELSE IF NestingDepth > 3 THEN 10
       ELSE IF NestingDepth > 2 THEN 5 ELSE 0)

Clamp(x) == Max(0, Min(Points(100), x))

\* C37 as stated: the style sub-score is 100 minus the penalties for long
\* lines and nesting and, only for more than 5 numeric literals, a penalty
\* of up to 10, clamped to [0,100]; nothing adds to it, for any language.
C37_StylePenaltiesOnly ==
    out.op = "score" =>
        \E literal_penalty \in 0 .. 10 :
            out.result.breakdown.beauty =
                Clamp(Points(100 - LineAndNestingPenalty
                             - (IF NumericLiterals > 5 THEN literal_penalty
                                ELSE 0)))

\* C37, amended: the style sub-score is 100 minus the penalties for long
\* lines and nesting, minus 5 for four or five numeric literals and 10 for
\* more, plus, for python only, 10 times the share of the assigned names
\* that are descriptive, clamped to [0,100].
C37_StylePenaltiesAndReward ==
    out.op = "score" =>
        out.result.breakdown.beauty =
            Clamp(Points(100 - LineAndNestingPenalty
                         - (IF NumericLiterals > 5 THEN 10
                            ELSE IF NumericLiterals >= 4 THEN 5 ELSE 0))
                  + (IF language_of(out.context) = "python" /\ AssignedNames > 0
                     THEN (Points(10) * DescriptiveNames) \div AssignedNames
                     ELSE 0))

\* a python text with a long line, deep nesting, four numeric literals and
\* one descriptive name of two was scored: 100 - 2 - 10 - 5 + 5
C37_Witness ==
    /\ out.op = "score"
    /\ language_of(out.context) = "python"
    /\ Cardinality(LongLines) = 1
    /\ NestingDepth = 4
    /\ NumericLiterals = 4
    /\ AssignedNames = 2
    /\ DescriptiveNames = 1
    /\ out.result.breakdown.beauty = Points(88)

(***************************************************************************)
(* Properties of the selection of the best fix.                            *)
(***************************************************************************)
\* the Scorer total of the i-th proposal of the call just made
ProposalTotal(i) ==
    score(scorer.weights, out.proposals[i].proposal.fixed_code,
          out.proposals[i].original_code, "None").total

\* C40: _select_best_fix returns None only for no proposal; otherwise it
\* returns the earliest of the proposals whose Scorer total is the highest,
\* with the warning exactly when that total is below the threshold.
C40_SelectsHighestTotal ==
    out.op = "select" =>
        IF out.proposals = <<>>
        THEN out.result = [outcome |-> "returned", value |-> None]
        ELSE /\ out.result.outcome = "returned"
             /\ \E i \in 1 .. Len(out.proposals) :
                   /\ out.result.value.provider = out.proposals[i].provider
                   /\ \A j \in 1 .. Len(out.proposals) :
                         /\ ProposalTotal(j) <= ProposalTotal(i)
                         /\ j < i => ProposalTotal(j) < ProposalTotal(i)
                   /\ ("warning" \in DOMAIN out.result.value) =
                         (ProposalTotal(i) < AcceptanceThreshold)

Spec == SpecSM
====
